---- MODULE Spec2Model ----
(***************************************************************************)
(* Breadth repository: the moving-average / VWMA breadth pipeline of       *)
(* main.compute_indicators (indicators/ma_indicators_1.py and the ladder   *)
(* builders), modelled over small price/volume panels.                     *)
(*                                                                         *)
(* Floating point values are modelled as extended rationals <<n, d>>:      *)
(*   d > 0 : the rational n/d in lowest terms                              *)
(*   d = 0 : n = 0 is NaN, n = 1 is +inf, n = -1 is -inf                   *)
(* Arithmetic is exact; rounding error of IEEE doubles is not modelled.    *)
(***************************************************************************)
EXTENDS Integers, Sequences, FiniteSets, TLC

VARIABLES
    index_df,      \* loaded index panel: [index, close, Close, volume]
    components_df, \* loaded component panel, each column ticker -> series
    df_idx,        \* index panel: [close, volume], each a series over the dates
    df_eod,        \* component panel: [close, volume], each ticker -> series
    ma_groups,     \* core.constants.ma_groups: group name -> periods
    args,          \* arguments the aggregators are called with
    pc,            \* position in main.compute_indicators
    df_idx_mas,    \* index-level MA/VWMA result
    df_eod_mas,    \* ticker-level MA/VWMA result
    idx_with_osc,  \* result of calc_conver_diver_oscillator
    idx_agg,       \* result of calculate_tickers_over_under_mas
    idx_compress,  \* result of calculate_compressao_dispersao
    ladder,        \* result of build_vwma_true_ladders
    trends,        \* result of calculate_trend_combinations
    call,          \* a call of a utility function: its name and arguments
    locals,        \* the local variables of that call while it runs
    returned       \* what the call returned

vars == <<index_df, components_df, df_idx, df_eod, ma_groups, args, pc, df_idx_mas, df_eod_mas,
          idx_with_osc, idx_agg, idx_compress, ladder, trends,
          call, locals, returned>>

\* the state of main.compute_indicators, and the state of a utility call
pipeline == <<index_df, components_df, df_idx, df_eod, ma_groups, args, pc, df_idx_mas,
              df_eod_mas, idx_with_osc, idx_agg, idx_compress, ladder, trends>>
utility == <<call, locals, returned>>

(***************************************************************************)
(* Bounds of the model                                                     *)
(***************************************************************************)
MaxDays == 4       \* number of rows (trading days) of the panels
MaxPrice == 2      \* prices are drawn from 0..MaxPrice (and NaN)
MaxVol == 2        \* volumes are drawn from 0..MaxVol
EpsInv == 9        \* eps of the source (1e-9) is modelled as 1/EpsInv
OscLookback == 3   \* oscillator_lookback of the minmax oscillator, in rows

Tickers == {"A", "B"}
Days == 1..MaxDays

(***************************************************************************)
(* Extended rationals                                                      *)
(***************************************************************************)
NaN == <<0, 0>>
PInf == <<1, 0>>
NInf == <<-1, 0>>

AbsI(i) == IF i < 0 THEN -i ELSE i
Sgn(i) == IF i > 0 THEN 1 ELSE IF i < 0 THEN -1 ELSE 0

RECURSIVE GCD(_, _)
GCD(a, b) == IF b = 0 THEN a ELSE GCD(b, a % b)

Norm(n, d) ==
    IF d = 0 THEN <<Sgn(n), 0>>
    ELSE LET s == IF d < 0 THEN -1 ELSE 1
             g == GCD(AbsI(n), AbsI(d))
         IN  <<(s * n) \div g, (s * d) \div g>>

R(i) == <<i, 1>>
Q(n, d) == Norm(n, d)

IsNaN(x) == x = NaN
NotNa(x) == x # NaN
IsFin(x) == x[2] > 0
IsInf(x) == x[2] = 0 /\ x[1] # 0

FNeg(x) == <<-x[1], x[2]>>
FAbs(x) == <<AbsI(x[1]), x[2]>>

FAdd(x, y) ==
    IF IsNaN(x) \/ IsNaN(y) THEN NaN
    ELSE IF IsFin(x) /\ IsFin(y)
         THEN LET g == GCD(x[2], y[2])
              IN  Norm(x[1] * (y[2] \div g) + y[1] * (x[2] \div g),
                       (x[2] \div g) * y[2])
    ELSE IF IsFin(x) THEN y
    ELSE IF IsFin(y) THEN x
    ELSE IF x = y THEN x ELSE NaN

FSub(x, y) == FAdd(x, FNeg(y))

FMul(x, y) ==
    IF IsNaN(x) \/ IsNaN(y) THEN NaN
    ELSE IF IsFin(x) /\ IsFin(y)
         THEN LET g1 == GCD(AbsI(x[1]), y[2])
                  g2 == GCD(AbsI(y[1]), x[2])
              IN  Norm((x[1] \div g1) * (y[1] \div g2),
                       (x[2] \div g2) * (y[2] \div g1))
    ELSE <<Sgn(x[1]) * Sgn(y[1]), 0>>

\* IEEE division: x/0 is +-inf (NaN for 0/0), finite/inf is 0, inf/inf is NaN.
\* A zero divisor is the positive zero: prices and sums are never -0.0.
FDiv(x, y) ==
    IF IsNaN(x) \/ IsNaN(y) THEN NaN
    ELSE IF IsFin(y)
         THEN IF y[1] = 0 THEN <<Sgn(x[1]), 0>>
              ELSE FMul(x, Norm(y[2], y[1]))
    ELSE IF IsFin(x) THEN R(0) ELSE NaN

\* comparisons are False as soon as one side is NaN
FLt(x, y) ==
    /\ NotNa(x) /\ NotNa(y)
    /\ IF IsFin(x) /\ IsFin(y) THEN x[1] * y[2] < y[1] * x[2]
       ELSE IF IsFin(x) THEN y = PInf
       ELSE IF IsFin(y) THEN x = NInf
       ELSE x = NInf /\ y = PInf
FGt(x, y) == FLt(y, x)
FLe(x, y) == NotNa(x) /\ NotNa(y) /\ ~FLt(y, x)

FMin2(x, y) == IF FLt(y, x) THEN y ELSE x
FMax2(x, y) == IF FLt(x, y) THEN y ELSE x

(***************************************************************************)
(* pandas Series helpers (a Series is a sequence over the dates)           *)
(***************************************************************************)
Map2(f(_, _), s, u) == [t \in 1..Len(s) |-> f(s[t], u[t])]

RECURSIVE SumRange(_, _, _)
\* sum of s[lo..hi], NaN as soon as one element is NaN
SumRange(s, lo, hi) ==
    IF lo > hi THEN R(0) ELSE FAdd(SumRange(s, lo, hi - 1), s[hi])

\* variant: rolling(window=w, min_periods=1).sum(), which sums the rows
\* available so far on the first w-1 rows
RollingSumPartial(s, w) ==
    [t \in 1..Len(s) |-> SumRange(s, IF t < w THEN 1 ELSE t - w + 1, t)]

\* Series.rolling(window=w).sum(): min_periods defaults to the window,
\* so a row needs w non-missing observations
RollingSum(s, w) ==
    [t \in 1..Len(s) |->
        IF t < w \/ \E k \in (t - w + 1)..t : IsNaN(s[k]) THEN NaN
        ELSE SumRange(s, t - w + 1, t)]

\* Series.rolling(window=w).mean()
RollingMean(s, w) ==
    LET rs == RollingSum(s, w) IN [t \in 1..Len(s) |-> FDiv(rs[t], R(w))]

(***************************************************************************)
(* core.constants                                                          *)
(***************************************************************************)
\* ma_groups of core/constants.py, the periods scaled down to the panels
ConstGroups ==
    [short |-> <<2>>, mid |-> <<3>>, long |-> <<4>>]

\* the groups build_vwma_true_ladders documents (short / medium / long)
LadderGroups ==
    [short |-> <<2>>, medium |-> <<3, 4>>, long |-> <<5>>]

SeqToSet(s) == {s[i] : i \in 1..Len(s)}

RECURSIVE SortedSeq(_)
SortedSeq(S) ==
    IF S = {} THEN <<>>
    ELSE LET m == CHOOSE x \in S : \A y \in S : x <= y
         IN  <<m>> \o SortedSeq(S \ {m})

\* mas_list = sorted(all periods of all groups)
MasList(groups) ==
    SortedSeq(UNION {SeqToSet(groups[g]) : g \in DOMAIN groups})

(***************************************************************************)
(* calculate_idx_and_comp_ma_vwma                                          *)
(***************************************************************************)
\* variant: a window without volume yields 0 instead of a missing value
VwmaZeroFill(close, volume, w) ==
    LET num == RollingSum(Map2(FMul, close, volume), w)
        den == RollingSum(volume, w)
    IN  [t \in 1..Len(close) |->
            IF den[t] = R(0) THEN R(0) ELSE FDiv(num[t], den[t])]

\* (close * volume).rolling(w).sum() / volume.rolling(w).sum()
Vwma(close, volume, w) ==
    Map2(FDiv, RollingSum(Map2(FMul, close, volume), w), RollingSum(volume, w))

IdxMas(idx, mas) ==
    [close |-> idx.close,
     volume |-> idx.volume,
     MA   |-> [w \in SeqToSet(mas) |-> RollingMean(idx.close, w)],
     VWMA |-> [w \in SeqToSet(mas) |-> Vwma(idx.close, idx.volume, w)]]

\* variant: the volume-weighted sum is averaged over the rows and not
\* divided by the volume sum
EodMasUnweighted(eod, mas) ==
    [close |-> eod.close,
     volume |-> eod.volume,
     MA   |-> [w \in SeqToSet(mas) |->
                 [k \in DOMAIN eod.close |-> RollingMean(eod.close[k], w)]],
     VWMA |-> [w \in SeqToSet(mas) |->
                 [k \in DOMAIN eod.close |->
                     RollingMean(Map2(FMul, eod.close[k], eod.volume[k]), w)]]]

\* variant: every ticker's price is weighted with the volume column of one
\* and the same ticker
EodMasSharedVolume(eod, mas) ==
    [close |-> eod.close,
     volume |-> eod.volume,
     MA   |-> [w \in SeqToSet(mas) |->
                 [k \in DOMAIN eod.close |-> RollingMean(eod.close[k], w)]],
     VWMA |-> [w \in SeqToSet(mas) |->
                 [k \in DOMAIN eod.close |->
                     Vwma(eod.close[k],
                          eod.volume[CHOOSE j \in DOMAIN eod.close : TRUE], w)]]]

EodMas(eod, mas) ==
    [close |-> eod.close,
     volume |-> eod.volume,
     MA   |-> [w \in SeqToSet(mas) |->
                 [k \in DOMAIN eod.close |-> RollingMean(eod.close[k], w)]],
     VWMA |-> [w \in SeqToSet(mas) |->
                 [k \in DOMAIN eod.close |->
                     Vwma(eod.close[k], eod.volume[k], w)]]]

(***************************************************************************)
(* More Series helpers                                                     *)
(***************************************************************************)
\* the non-missing values of s[lo..hi], as a sequence
RECURSIVE ValidRange(_, _, _)
ValidRange(s, lo, hi) ==
    IF lo > hi THEN <<>>
    ELSE IF IsNaN(s[hi]) THEN ValidRange(s, lo, hi - 1)
    ELSE Append(ValidRange(s, lo, hi - 1), s[hi])

RECURSIVE FoldSeq(_, _, _)
FoldSeq(f(_, _), base, q) ==
    IF q = <<>> THEN base ELSE f(FoldSeq(f, base, SubSeq(q, 1, Len(q) - 1)), q[Len(q)])

Lo(t, w) == IF t - w + 1 < 1 THEN 1 ELSE t - w + 1

\* rolling(window=w, min_periods=mp).min() / .max() / .mean() / .median():
\* computed on the non-missing observations of the trailing window, NaN when
\* there are fewer than mp of them
RollingMinP(s, w, mp) ==
    [t \in 1..Len(s) |->
        LET v == ValidRange(s, Lo(t, w), t)
        IN  IF Len(v) < mp THEN NaN ELSE FoldSeq(FMin2, v[1], v)]

\* variant: rolling(window=w, min_periods=mp, center=True).max(), whose
\* window reaches one row past t
RollingMaxPCentered(s, w, mp) ==
    [t \in 1..Len(s) |->
        LET v == ValidRange(s, Lo(t, w), IF t < Len(s) THEN t + 1 ELSE t)
        IN  IF Len(v) < mp THEN NaN ELSE FoldSeq(FMax2, v[1], v)]

RollingMaxP(s, w, mp) ==
    [t \in 1..Len(s) |->
        LET v == ValidRange(s, Lo(t, w), t)
        IN  IF Len(v) < mp THEN NaN ELSE FoldSeq(FMax2, v[1], v)]

\* variant: rolling(window=w).mean(), which needs a full window
RollingMeanFullWindow(s, w, mp) ==
    [t \in 1..Len(s) |->
        LET v == ValidRange(s, Lo(t, w), t)
        IN  IF Len(v) < w THEN NaN ELSE FDiv(FoldSeq(FAdd, R(0), v), R(Len(v)))]

RollingMeanP(s, w, mp) ==
    [t \in 1..Len(s) |->
        LET v == ValidRange(s, Lo(t, w), t)
        IN  IF Len(v) < mp THEN NaN ELSE FDiv(FoldSeq(FAdd, R(0), v), R(Len(v)))]

\* k-th smallest element of a non-empty sequence of non-missing values
KthSmallest(v, k) ==
    LET i == CHOOSE i \in 1..Len(v) :
                 /\ Cardinality({j \in 1..Len(v) : FLt(v[j], v[i])}) < k
                 /\ Cardinality({j \in 1..Len(v) : FLe(v[j], v[i])}) >= k
    IN  v[i]

Median(v) ==
    LET n == Len(v)
    IN  IF n % 2 = 1 THEN KthSmallest(v, (n + 1) \div 2)
        ELSE FDiv(FAdd(KthSmallest(v, n \div 2), KthSmallest(v, n \div 2 + 1)), R(2))

RollingMedianP(s, w, mp) ==
    [t \in 1..Len(s) |->
        LET v == ValidRange(s, Lo(t, w), t)
        IN  IF Len(v) < mp THEN NaN ELSE Median(v)]

\* Series.clip(lower, upper): a missing value stays missing
Clip(x, lower, upper) ==
    IF IsNaN(x) THEN NaN
    ELSE IF FLt(x, lower) THEN lower
    ELSE IF FGt(x, upper) THEN upper ELSE x

FillNa(x, v) == IF IsNaN(x) THEN v ELSE x
ReplaceZeroByNaN(x) == IF x = R(0) THEN NaN ELSE x
ReplaceInfByNaN(x) == IF IsInf(x) THEN NaN ELSE x

\* DataFrame[cols].max(axis=1) / .min(axis=1) at one row: missing values are
\* skipped, the result is missing when every column is
RowMax(cols, t) ==
    LET v == ValidRange([i \in 1..Len(cols) |-> cols[i][t]], 1, Len(cols))
    IN  IF v = <<>> THEN NaN ELSE FoldSeq(FMax2, v[1], v)

RowMin(cols, t) ==
    LET v == ValidRange([i \in 1..Len(cols) |-> cols[i][t]], 1, Len(cols))
    IN  IF v = <<>> THEN NaN ELSE FoldSeq(FMin2, v[1], v)

\* DataFrame.sum(axis=1) at one row: missing values are skipped (an empty
\* sum is 0), infinities are not
RowSum(vals) == FoldSeq(FAdd, R(0), ValidRange(vals, 1, Len(vals)))

(***************************************************************************)
(* utils.zscore.rolling_robust_zscore                                      *)
(***************************************************************************)
\* the parameter sets of rolling_robust_zscore (window / min_periods scaled
\* down to the panels, the clip bounds as in the source); NaN is "clip: None"
DefaultScoreParams ==
    [swing     |-> [window |-> 3, min_periods |-> 2, clip |-> Q(7, 2)],
     longterm  |-> [window |-> 4, min_periods |-> 3, clip |-> R(4)],
     anomalies |-> [window |-> 3, min_periods |-> 2, clip |-> NaN]]

\* core.constants.zscore_params, which calc_conver_diver_oscillator passes for
\* the VWMA series
zscore_params == DefaultScoreParams

\* 1.4826, the factor that makes the MAD comparable to a standard deviation
MadScale == Q(7413, 5000)

\* variant: the z-score without the final fillna(0.0)
RollingRobustZscoreNoFill(series, mode, score_params) ==
    IF mode \notin DOMAIN score_params
    THEN [error |-> "ValueError", names |-> {mode}]
    ELSE
    LET params == score_params[mode]
        roll_median == RollingMedianP(series, params.window, params.min_periods)
        dev == [t \in 1..Len(series) |-> FAbs(FSub(series[t], roll_median[t]))]
        mad == RollingMedianP(dev, params.window, params.min_periods)
        z == [t \in 1..Len(series) |->
                 ReplaceInfByNaN(FDiv(FSub(series[t], roll_median[t]),
                                      ReplaceZeroByNaN(FMul(mad[t], MadScale))))]
    IN  IF IsNaN(params.clip) THEN z
        ELSE [t \in 1..Len(series) |-> Clip(z[t], FNeg(params.clip), params.clip)]

\* variant: the z-score with the clip of the mode ignored
RollingRobustZscoreNoClip(series, mode, score_params) ==
    IF mode \notin DOMAIN score_params
    THEN [error |-> "ValueError", names |-> {mode}]
    ELSE
    LET params == score_params[mode]
        roll_median == RollingMedianP(series, params.window, params.min_periods)
        dev == [t \in 1..Len(series) |-> FAbs(FSub(series[t], roll_median[t]))]
        mad == RollingMedianP(dev, params.window, params.min_periods)
    IN  [t \in 1..Len(series) |->
            FillNa(ReplaceInfByNaN(FDiv(FSub(series[t], roll_median[t]),
                                        ReplaceZeroByNaN(FMul(mad[t], MadScale)))), R(0))]

RollingRobustZscore(series, mode, score_params) ==
    IF mode \notin DOMAIN score_params
    THEN [error |-> "ValueError", names |-> {mode}]
    ELSE
    LET params == score_params[mode]
        window == params.window
        min_periods == params.min_periods
        clip == params.clip
        roll_median == RollingMedianP(series, window, min_periods)
        dev == [t \in 1..Len(series) |-> FAbs(FSub(series[t], roll_median[t]))]
        mad == RollingMedianP(dev, window, min_periods)
        robust_std == [t \in 1..Len(series) |->
                          ReplaceZeroByNaN(FMul(mad[t], MadScale))]
        z == [t \in 1..Len(series) |->
                 FillNa(ReplaceInfByNaN(
                     FDiv(FSub(series[t], roll_median[t]), robust_std[t])), R(0))]
    IN  IF IsNaN(clip) THEN z
        ELSE [t \in 1..Len(series) |-> Clip(z[t], FNeg(clip), clip)]

(***************************************************************************)
(* calc_conver_diver_oscillator                                            *)
(***************************************************************************)
Eps == Q(1, EpsInv)

\* the period 200 of the source: the last period of the long group
P200(groups) == groups.long[Len(groups.long)]

\* {prefix}_range: max minus min over the selected MA columns
RangeOver(table, periods) ==
    LET cols == [i \in 1..Len(periods) |-> table[periods[i]]]
    IN  [t \in 1..Len(cols[1]) |-> FSub(RowMax(cols, t), RowMin(cols, t))]

\* {prefix}_range_pct = {prefix}_range / (price + eps)
RangePct(rng, price) ==
    [t \in 1..Len(rng) |-> FDiv(rng[t], FAdd(price[t], Eps))]

\* variant: the oscillator without the final fillna(0.0)
MinMaxOscNoFill(x, lookback) ==
    LET roll_min == RollingMinP(x, lookback, 1)
        roll_max == RollingMaxP(x, lookback, 1)
        denom == [t \in 1..Len(x) |-> ReplaceZeroByNaN(FSub(roll_max[t], roll_min[t]))]
    IN  [t \in 1..Len(x) |->
            Clip(FDiv(FSub(x[t], roll_min[t]), denom[t]), R(0), R(1))]

\* the minmax oscillator of one range_pct series
MinMaxOsc(x, lookback) ==
    LET roll_min == RollingMinP(x, lookback, 1)
        roll_max == RollingMaxP(x, lookback, 1)
        denom == [t \in 1..Len(x) |-> ReplaceZeroByNaN(FSub(roll_max[t], roll_min[t]))]
    IN  [t \in 1..Len(x) |->
            FillNa(Clip(FDiv(FSub(x[t], roll_min[t]), denom[t]), R(0), R(1)), R(0))]

\* the result is a copy of the index table (base) with the columns added
CalcConverDiverOscillator(idx_mas, groups, oscillator_type, zscore_mode, oscillator_lookback) ==
    LET mas == SortedSeq(DOMAIN idx_mas.MA)
        IsNo200(w) == w # P200(groups)
        IsShort(w) == w \in SeqToSet(groups.short)
        no200 == SelectSeq(mas, IsNo200)
        short == SelectSeq(mas, IsShort)
        price == idx_mas.close
        pct == [MA_no200     |-> RangePct(RangeOver(idx_mas.MA, no200), price),
                VWMA_no200   |-> RangePct(RangeOver(idx_mas.VWMA, no200), price),
                short_MA     |-> RangePct(RangeOver(idx_mas.MA, short), price),
                short_VWMA   |-> RangePct(RangeOver(idx_mas.VWMA, short), price)]
    IN  IF oscillator_type = "minmax"
        THEN [base |-> idx_mas,
              range_pct |-> pct,
              osc |-> [c \in DOMAIN pct |-> MinMaxOsc(pct[c], oscillator_lookback)]]
        ELSE IF oscillator_type = "zscore"
        THEN LET z == [MA_no200   |-> RollingRobustZscore(pct.MA_no200, zscore_mode,
                                                          DefaultScoreParams),
                       VWMA_no200 |-> RollingRobustZscore(pct.VWMA_no200, zscore_mode,
                                                          zscore_params),
                       short_MA   |-> RollingRobustZscore(pct.short_MA, zscore_mode,
                                                          DefaultScoreParams),
                       short_VWMA |-> RollingRobustZscore(pct.short_VWMA, zscore_mode,
                                                          zscore_params)]
             IN  IF zscore_mode \notin DOMAIN DefaultScoreParams THEN z.MA_no200
                 ELSE [base |-> idx_mas, range_pct |-> pct, osc |-> z]
        ELSE [error |-> "ValueError", names |-> {oscillator_type}]

(***************************************************************************)
(* calculate_tickers_over_under_mas                                        *)
(***************************************************************************)
RECURSIVE SetToSeq(_)
SetToSeq(S) ==
    IF S = {} THEN <<>>
    ELSE LET m == CHOOSE x \in S : TRUE IN <<m>> \o SetToSeq(S \ {m})

\* classification by the sign of close - ma, without a band
ClassifySign(close, ma, neutral_band_pct) ==
    IF FGt(close, ma) THEN 1 ELSE IF FLt(close, ma) THEN -1 ELSE 0

\* classification of one (date, ticker) pair with the neutral band:
\* +1 above, -1 below, 0 otherwise (a missing pct_diff is filled with 0)
Classify(close, ma, neutral_band_pct) ==
    LET pct_diff == FDiv(FSub(close, ma), FAdd(close, Eps))
    IN  IF FGt(pct_diff, neutral_band_pct) THEN 1
        ELSE IF FLt(pct_diff, FNeg(neutral_band_pct)) THEN -1
        ELSE 0

\* counts and percentages of one MA (or VWMA) table: ticker -> series
OverUnder(close_eod, ma_df, num_tickers, neutral_band_pct, smooth_window) ==
    LET cols == DOMAIN close_eod
        n == Len(close_eod[CHOOSE k \in cols : TRUE])
        comp == [k \in cols |-> [t \in 1..n |->
                    Classify(close_eod[k][t], ma_df[k][t], neutral_band_pct)]]
        num_above == [t \in 1..n |-> Cardinality({k \in cols : comp[k][t] = 1})]
        num_below == [t \in 1..n |-> Cardinality({k \in cols : comp[k][t] = -1})]
        num_neutral == [t \in 1..n |-> Cardinality({k \in cols : comp[k][t] = 0})]
        pct(num) == [t \in 1..n |-> FMul(FDiv(R(num[t]), R(num_tickers)), R(100))]
        smooth(x) == IF smooth_window > 1
                     THEN RollingMeanP(x, smooth_window, 1) ELSE x
    IN  [num_above   |-> num_above,
         num_below   |-> num_below,
         num_neutral |-> num_neutral,
         pct_above   |-> smooth(pct(num_above)),
         pct_below   |-> smooth(pct(num_below)),
         pct_neutral |-> smooth(pct(num_neutral))]

CalculateTickersOverUnderMas(eod_mas, num_tickers, neutral_band_pct, smooth_window) ==
    [MA   |-> [w \in DOMAIN eod_mas.MA |->
                 OverUnder(eod_mas.close, eod_mas.MA[w], num_tickers,
                           neutral_band_pct, smooth_window)],
     VWMA |-> [w \in DOMAIN eod_mas.VWMA |->
                 OverUnder(eod_mas.close, eod_mas.VWMA[w], num_tickers,
                           neutral_band_pct, smooth_window)]]

(***************************************************************************)
(* calculate_compressao_dispersao                                          *)
(***************************************************************************)
\* diff = (close - MA) / close, per ticker and date
DiffDf(close_eod, ma_df) ==
    [k \in DOMAIN close_eod |->
        [t \in 1..Len(close_eod[k]) |->
            FDiv(FSub(close_eod[k][t], ma_df[k][t]), close_eod[k][t])]]

\* variant: the row sum of the signed distances
AbsCompSigned(diff) ==
    LET ks == SetToSeq(DOMAIN diff)
    IN  [t \in 1..Len(diff[ks[1]]) |->
            RowSum([i \in 1..Len(ks) |-> diff[ks[i]][t]])]

\* diff.abs().sum(axis=1)
AbsComp(diff) ==
    LET ks == SetToSeq(DOMAIN diff)
    IN  [t \in 1..Len(diff[ks[1]]) |->
            RowSum([i \in 1..Len(ks) |-> FAbs(diff[ks[i]][t])])]

\* diff.sum(axis=1)
DirComp(diff) ==
    LET ks == SetToSeq(DOMAIN diff)
    IN  [t \in 1..Len(diff[ks[1]]) |->
            RowSum([i \in 1..Len(ks) |-> diff[ks[i]][t]])]

\* variant: the sum over the columns of every window
GroupSumAllWindows(table, periods) ==
    LET cols == SortedSeq(DOMAIN table)
    IN  [t \in 1..Len(table[cols[1]]) |->
            RowSum([i \in 1..Len(cols) |-> table[cols[i]][t]])]

\* df[cols].sum(axis=1) over the columns of the periods of one group
GroupSum(table, periods) ==
    LET cols == SelectSeq(periods, LAMBDA w : w \in DOMAIN table)
    IN  IF cols = <<>> THEN NaN
        ELSE [t \in 1..Len(table[cols[1]]) |->
                 RowSum([i \in 1..Len(cols) |-> table[cols[i]][t]])]

\* the index-level result is a copy of the index table (base) with the
\* columns added
CalculateCompressaoDispersao(idx_mas, eod_mas, groups) ==
    LET ws == DOMAIN eod_mas.MA
        diff_ma == [w \in ws |-> DiffDf(eod_mas.close, eod_mas.MA[w])]
        diff_vwma == [w \in ws |-> DiffDf(eod_mas.close, eod_mas.VWMA[w])]
        abs_vwma == [w \in ws |-> AbsComp(diff_vwma[w])]
        dir_vwma == [w \in ws |-> DirComp(diff_vwma[w])]
    IN  [base     |-> idx_mas,
         Abs_MA   |-> [w \in ws |-> AbsComp(diff_ma[w])],
         Abs_VWMA |-> abs_vwma,
         Dir_MA   |-> [w \in ws |-> DirComp(diff_ma[w])],
         Dir_VWMA |-> dir_vwma,
         Abs_VWMA_sum |-> [g \in DOMAIN groups |-> GroupSum(abs_vwma, groups[g])],
         Dir_VWMA_sum |-> [g \in DOMAIN groups |-> GroupSum(dir_vwma, groups[g])]]

(***************************************************************************)
(* build_vwma_true_ladders                                                 *)
(***************************************************************************)
\* variant: "cond = prev > curr" for "cond &= prev > curr", so that only
\* the last pair of averages is compared
StrictLadderConditionLastPair(adj, vwmas) ==
    IF Len(vwmas) = 1 THEN FGt(adj, vwmas[1])
    ELSE FGt(vwmas[Len(vwmas) - 1], vwmas[Len(vwmas)])

\* variant: only the price is compared, with the first average
StrictLadderConditionPriceOnly(adj, vwmas) == FGt(adj, vwmas[1])

\* _strict_ladder_condition at one (date, ticker): price > v0 > v1 > ...
StrictLadderCondition(adj, vwmas) ==
    /\ FGt(adj, vwmas[1])
    /\ \A i \in 1..(Len(vwmas) - 1) : FGt(vwmas[i], vwmas[i + 1])

\* one prefix of a ladder: percentage of the tickers satisfying the rung
RungPct(eod_mas, rung) ==
    LET adj == eod_mas.close
        n_tickers == Cardinality(DOMAIN adj)
        n == Len(adj[CHOOSE k \in DOMAIN adj : TRUE])
        cond(k, t) == StrictLadderCondition(
                          adj[k][t], [i \in 1..Len(rung) |-> eod_mas.VWMA[rung[i]][k][t]])
    IN  [t \in 1..n |->
            FMul(FDiv(R(Cardinality({k \in DOMAIN adj : cond(k, t)})),
                      R(n_tickers)), R(100))]

\* a ladder that keeps the full chain only
LadderFullChainOnly(eod_mas, periods) ==
    <<RungPct(eod_mas, periods)>>

\* the loop "for i in range(len(periods))": one series per prefix length
LadderPrefixes(eod_mas, periods) ==
    [i \in 1..Len(periods) |-> RungPct(eod_mas, SubSeq(periods, 1, i))]

\* the periods a ladder asks _vwma for that have no VWMA column
MissingVwma(eod_mas, periods) ==
    {w \in SeqToSet(periods) : w \notin DOMAIN eod_mas.VWMA}

\* mini ladders continued from the windows below the group
BuildVwmaLaddersChained(eod_mas, mas, groups) ==
    IF MissingVwma(eod_mas, mas) # {}
    THEN [error |-> "KeyError", names |-> MissingVwma(eod_mas, mas)]
    ELSE IF {"medium", "long"} \ DOMAIN groups # {}
    THEN [error |-> "KeyError", names |-> {"medium", "long"} \ DOMAIN groups]
    ELSE LET below(g) == SelectSeq(mas, LAMBDA w : w < groups[g][1])
             chained(g) == [i \in 1..Len(groups[g]) |->
                               RungPct(eod_mas, below(g) \o SubSeq(groups[g], 1, i))]
         IN  [main   |-> LadderPrefixes(eod_mas, mas),
              mini40 |-> chained("medium"),
              mini80 |-> chained("long")]

BuildVwmaTrueLadders(eod_mas, mas, groups) ==
    IF MissingVwma(eod_mas, mas) # {}
    THEN [error |-> "KeyError", names |-> MissingVwma(eod_mas, mas)]
    ELSE IF "medium" \notin DOMAIN groups
    THEN [error |-> "KeyError", names |-> {"medium"}]
    ELSE IF MissingVwma(eod_mas, groups["medium"]) # {}
    THEN [error |-> "KeyError", names |-> MissingVwma(eod_mas, groups["medium"])]
    ELSE IF "long" \notin DOMAIN groups
    THEN [error |-> "KeyError", names |-> {"long"}]
    ELSE IF MissingVwma(eod_mas, groups["long"]) # {}
    THEN [error |-> "KeyError", names |-> MissingVwma(eod_mas, groups["long"])]
    ELSE [main   |-> LadderPrefixes(eod_mas, mas),
          mini40 |-> LadderPrefixes(eod_mas, groups["medium"]),
          mini80 |-> LadderPrefixes(eod_mas, groups["long"])]

(***************************************************************************)
(* calculate_trend_combinations                                            *)
(***************************************************************************)
\* core.constants.trend_combinations in dictionary order: chain name and
\* column labels, a label being <<prefix, period>> (periods scaled as in
\* ma_groups)
trend_combinations ==
    << [name |-> ">MA_2",     cols |-> << <<"AboveBelowMA", 2>> >>],
       [name |-> ">MA_3_4",   cols |-> << <<"AboveBelowMA", 3>>, <<"AboveBelowMA", 4>> >>],
       [name |-> ">VWMA_2",   cols |-> << <<"AboveBelowVWMA", 2>> >>],
       [name |-> ">VWMA_3_4", cols |-> << <<"AboveBelowVWMA", 3>>, <<"AboveBelowVWMA", 4>> >>] >>

\* the level-0 column labels of df_eod_with_mas_vwmas
EodColumns(eod_mas) ==
    {<<"Adj Close", 0>>, <<"Volume", 0>>}
        \cup {<<"MA", w>> : w \in DOMAIN eod_mas.MA}
        \cup {<<"VWMA", w>> : w \in DOMAIN eod_mas.VWMA}

EodColumn(eod_mas, label) ==
    IF label[1] = "MA" THEN eod_mas.MA[label[2]]
    ELSE IF label[1] = "VWMA" THEN eod_mas.VWMA[label[2]]
    ELSE IF label[1] = "Volume" THEN eod_mas.volume
    ELSE eod_mas.close

\* one iteration of "for trend_name, vwma_list in trend_combinations.items()".
\* A label that is no column prints a warning, replaces the mask by a Series
\* of False and leaves the loop; mask.sum(axis=1) on that Series then raises
\* ValueError("No axis named 1 for object type Series"), which does not name
\* the label.
TrendCombination(eod_mas, num_tickers, vwma_list) ==
    LET close_eod == eod_mas.close
        n == Len(close_eod[CHOOSE k \in DOMAIN close_eod : TRUE])
        missing == {i \in 1..Len(vwma_list) : vwma_list[i] \notin EodColumns(eod_mas)}
        above(k, t) == \A i \in 1..Len(vwma_list) :
                          FGt(close_eod[k][t], EodColumn(eod_mas, vwma_list[i])[k][t])
        count == [t \in 1..n |-> Cardinality({k \in DOMAIN close_eod : above(k, t)})]
    IN  IF missing # {}
        THEN [error |-> "ValueError", names |-> {}, warned |-> {vwma_list[
                  CHOOSE i \in missing : \A j \in missing : i <= j]}]
        ELSE [num |-> count,
              pct |-> [t \in 1..n |-> FMul(FDiv(R(count[t]), R(num_tickers)), R(100))]]

\* the whole loop: the first chain that raises ends the function
CalculateTrendCombinations(eod_mas, num_tickers, combos) ==
    LET res == [i \in 1..Len(combos) |->
                   TrendCombination(eod_mas, num_tickers, combos[i].cols)]
        failed == {i \in 1..Len(combos) : "error" \in DOMAIN res[i]}
    IN  IF failed # {}
        THEN LET i == CHOOSE i \in failed : \A j \in failed : i <= j
             IN  [error |-> res[i].error, names |-> res[i].names,
                  warned |-> res[i].warned, chain |-> combos[i].name]
        ELSE [trends |-> res]

(***************************************************************************)
(* Panels and arguments                                                    *)
(***************************************************************************)
Unset == [unset |-> TRUE]
IsSet(x) == "unset" \notin DOMAIN x
Raised(x) == "error" \in DOMAIN x

ConstSeries(x) == [t \in Days |-> x]
RampSeries == [t \in Days |-> R(t)]

\* a ticker listed after `lead` missing rows, rising by one a day
ListedSeries(lead) == [t \in Days |-> IF t <= lead THEN NaN ELSE R(t)]

\* a series of up to three levels: x[1] before row c1, x[2] before row c2,
\* x[3] from row c2 on
StepSeries(c1, c2, x) ==
    [t \in Days |-> IF t < c1 THEN x[1] ELSE IF t < c2 THEN x[2] ELSE x[3]]

Cuts == 1..(MaxDays + 1)
Levels(lo, hi) == {R(p) : p \in lo..hi}

\* plot_setup.num_tickers: the number of codes of the market's list
NumTickers == Cardinality(Tickers)

\* main.compute_indicators calls the aggregators with their defaults
DefaultArgs ==
    [oscillator_type     |-> "zscore",
     zscore_mode         |-> "swing",
     oscillator_lookback |-> OscLookback,
     neutral_band_pct    |-> Q(1, 200),
     smooth_window       |-> 3,
     num_tickers         |-> NumTickers]

OscArgs ==
    {[DefaultArgs EXCEPT !.oscillator_type = "minmax"]}
        \cup {[DefaultArgs EXCEPT !.zscore_mode = m] : m \in DOMAIN DefaultScoreParams}

(***************************************************************************)
(* update_databases and align_and_prepare_for_plot                         *)
(*                                                                         *)
(* A loaded panel is a record: index (the dates of the rows), and the      *)
(* columns the pipeline reads: close ('Adj Close'), Close ('Close') and    *)
(* volume ('Volume').  A column of the index panel is a series, a column   *)
(* of the component panel a function ticker -> series.                     *)
(***************************************************************************)
\* an entry of a DatetimeIndex, and an entry that is still a date string
Timestamp(d) == [kind |-> "Timestamp", day |-> d]
DateString(d) == [kind |-> "str", day |-> d]

\* pd.to_datetime(index): date strings are parsed, timestamps are kept
ToDatetime(index) == [i \in 1..Len(index) |-> Timestamp(index[i].day)]

\* the DatetimeIndex of the days lo..hi
DayIndex(lo, hi) == [i \in 1..(hi - lo + 1) |-> Timestamp(lo + i - 1)]

\* a panel as update_indexes / update_component_csvs return it for a file
\* that has the columns Adj Close, Close and Volume on the days 1..MaxDays
LoadedPanel(p) ==
    [index |-> DayIndex(1, MaxDays), close |-> p.close, Close |-> p.close,
     volume |-> p.volume]

\* _ensure_adj_close_index: 'Adj Close' is created from 'Close' if missing
EnsureAdjCloseIndex(df) ==
    IF "close" \notin DOMAIN df /\ "Close" \in DOMAIN df
    THEN [close |-> df.Close] @@ df
    ELSE df

\* the tickers that have the column (field, ticker)
TickersOf(df, field) == IF field \in DOMAIN df THEN DOMAIN df[field] ELSE {}

\* _ensure_adj_close_components: for every ticker, ('Adj Close', t) is
\* created from ('Close', t) if it is missing and ('Close', t) exists
EnsureAdjCloseComponents(df) ==
    LET have == TickersOf(df, "close")
        add == TickersOf(df, "Close") \ have
    IN  IF add = {} THEN df
        ELSE [close |-> [t \in have \cup add |->
                            IF t \in have THEN df.close[t] ELSE df.Close[t]]] @@ df

\* df.loc[common_dates]: the rows of the dates, in the order of the dates
TakeRows(series, rows) == [j \in 1..Len(rows) |-> series[rows[j]]]

DaysOf(index) == {index[i].day : i \in 1..Len(index)}

RowsOf(index, days) ==
    LET sorted == SortedSeq(days)
    IN  [j \in 1..Len(sorted) |-> CHOOSE i \in 1..Len(index) : index[i].day = sorted[j]]

\* align_and_prepare_for_plot(df1, df2) after the two index assignments:
\* both tables restricted to their common dates; a row of the result is
\* identified by its position
AlignAndPrepareForPlot(df1, df2) ==
    LET common_dates == DaysOf(df2.index) \cap DaysOf(df1.index)
        rows1 == RowsOf(df1.index, common_dates)
        rows2 == RowsOf(df2.index, common_dates)
    IN  IF Cardinality(DaysOf(df1.index)) # Len(df1.index)
           \/ Cardinality(DaysOf(df2.index)) # Len(df2.index)
        THEN [error |-> "ValueError", names |-> {"Indices must be unique"}]
        ELSE IF common_dates = {}
        THEN [error |-> "ValueError", names |-> {"No common trading dates"}]
        ELSE [df1 |-> [f \in DOMAIN df1 \ {"index"} |-> TakeRows(df1[f], rows1)],
              df2 |-> [f \in DOMAIN df2 \ {"index"} |->
                          [k \in DOMAIN df2[f] |-> TakeRows(df2[f][k], rows2)]]]

\* neutral_band_pct: the default and a band between the two quotients
\* (close - ma) / (close + eps) and (close - ma) / close of a price step
NeutralBands == {Q(1, 200), Q(6, 25)}

\* listings: ticker A has up to three levels of price (zero included) or
\* of missing rows, ticker B rises by one a day from its first or second
\* row; the volumes are constant; the breadth is smoothed (the default)
\* when B is listed from the first row and unsmoothed when it is listed later
InitEod ==
    /\ index_df = LoadedPanel([close |-> RampSeries, volume |-> ConstSeries(R(1))])
    /\ \E c1 \in Cuts, c2 \in Cuts, lb \in 0..1 :
       \E x \in [1..3 -> Levels(0, MaxPrice) \cup {NaN}] :
          /\ c1 <= c2
          /\ components_df = LoadedPanel(
                 [close  |-> [k \in Tickers |->
                                IF k = "A" THEN StepSeries(c1, c2, x)
                                ELSE ListedSeries(lb)],
                  volume |-> [k \in Tickers |-> ConstSeries(R(1))]])
          /\ args = IF lb = 0 THEN DefaultArgs
                    ELSE [DefaultArgs EXCEPT !.smooth_window = 1]
    /\ ma_groups = LadderGroups

\* volumes: ticker A has up to two levels of positive price and up to two
\* levels of volume (zero included), ticker B rises by one a day
InitVol ==
    /\ index_df = LoadedPanel([close |-> RampSeries, volume |-> ConstSeries(R(1))])
    /\ \E cp \in Cuts, cv \in Cuts :
       \E pa \in [1..2 -> Levels(1, MaxPrice)], va \in [1..2 -> Levels(0, MaxVol)] :
          components_df = LoadedPanel(
              [close  |-> [k \in Tickers |->
                             IF k = "A" THEN StepSeries(cp, cp, <<pa[1], pa[2], pa[2]>>)
                             ELSE RampSeries],
               volume |-> [k \in Tickers |->
                             IF k = "A" THEN StepSeries(cv, cv, <<va[1], va[2], va[2]>>)
                             ELSE ConstSeries(R(1))]])
    /\ ma_groups = LadderGroups
    /\ args = [DefaultArgs EXCEPT !.smooth_window = 1]

\* index: the index price has up to three levels, the index volume is
\* constant or rising, with every oscillator type and mode; ma_groups as in
\* core/constants.py
InitIdx ==
    /\ \E c1 \in Cuts, c2 \in Cuts, rising \in BOOLEAN :
       \E x \in [1..3 -> Levels(1, MaxPrice)] :
          /\ c1 <= c2
          /\ index_df = LoadedPanel(
                 [close |-> StepSeries(c1, c2, x),
                  volume |-> IF rising THEN RampSeries ELSE ConstSeries(R(1))])
    /\ components_df = LoadedPanel(
           [close  |-> [k \in Tickers |-> RampSeries],
            volume |-> [k \in Tickers |-> ConstSeries(R(1))]])
    /\ ma_groups = ConstGroups
    /\ args \in OscArgs

\* the selections of price columns a file can have
Restrict(df, fields) == [f \in fields |-> df[f]]

\* columns and calendars: the index file has both price columns, only
\* Close, or none; the component file has Adj Close for all, one or none of
\* the tickers and Close for all, or no price column; the index file may
\* start a day earlier and the component file may end a day later; the
\* Close prices are one above the Adj Close prices; the neutral band is the
\* default or a wide one
InitCols ==
    /\ \E early \in 0..1, fields \in {{"close", "Close"}, {"Close"}, {}} :
          index_df = Restrict(
              [index  |-> DayIndex(1 - early, MaxDays),
               close  |-> [i \in 1..(MaxDays + early) |-> R(i)],
               Close  |-> [i \in 1..(MaxDays + early) |-> R(i + 1)],
               volume |-> [i \in 1..(MaxDays + early) |-> R(1)]],
              {"index", "volume"} \cup fields)
    /\ \E late \in 0..1, adj \in {Tickers, {"B"}, {}}, unadjusted \in BOOLEAN :
          /\ unadjusted \/ adj \in {Tickers, {}}
          /\ components_df = Restrict(
                 [index  |-> DayIndex(1, MaxDays + late),
                  close  |-> [k \in adj |-> [i \in 1..(MaxDays + late) |-> R(i)]],
                  Close  |-> [k \in Tickers |-> [i \in 1..(MaxDays + late) |-> R(i + 1)]],
                  volume |-> [k \in Tickers |-> [i \in 1..(MaxDays + late) |-> R(1)]]],
                 {"index", "volume"}
                     \cup (IF adj = {} THEN {} ELSE {"close"})
                     \cup (IF unadjusted THEN {"Close"} ELSE {}))
    /\ ma_groups = LadderGroups
    /\ \E band \in NeutralBands : args = [DefaultArgs EXCEPT !.neutral_band_pct = band]

InitCommon ==
    /\ pc = "update_databases"
    /\ df_idx = Unset
    /\ df_eod = Unset
    /\ df_idx_mas = Unset
    /\ df_eod_mas = Unset
    /\ idx_with_osc = Unset
    /\ idx_agg = Unset
    /\ idx_compress = Unset
    /\ ladder = Unset
    /\ trends = Unset
    /\ call = Unset /\ locals = Unset /\ returned = Unset

Init == InitCommon /\ (InitEod \/ InitVol \/ InitIdx \/ InitCols)

(***************************************************************************)
(* main.compute_indicators, one action per call                            *)
(***************************************************************************)
\* update_databases: the panels of the market under study, with
\* 'Adj Close' ensured
UpdateDatabases ==
    /\ pc = "update_databases"
    /\ index_df' = EnsureAdjCloseIndex(index_df)
    /\ components_df' = EnsureAdjCloseComponents(components_df)
    /\ pc' = "align_and_prepare_for_plot"
    /\ UNCHANGED <<utility, df_idx, df_eod, ma_groups, args, df_idx_mas, df_eod_mas,
                   idx_with_osc, idx_agg, idx_compress, ladder, trends>>

\* variant: the rows outside the common dates are dropped from the caller's
\* tables (drop(..., inplace=True)) and the tables themselves are returned
AlignInPlace ==
    /\ pc = "align_and_prepare_for_plot"
    /\ LET a == AlignAndPrepareForPlot(index_df, components_df)
           days == DaysOf(components_df.index) \cap DaysOf(index_df.index)
       IN  /\ index_df' = [index |-> TakeRows(index_df.index,
                                              RowsOf(index_df.index, days))] @@ a.df1
           /\ components_df' = [index |-> TakeRows(components_df.index,
                                   RowsOf(components_df.index, days))] @@ a.df2
           /\ df_idx' = a.df1
           /\ df_eod' = a.df2
    /\ pc' = "calculate_idx_and_comp_ma_vwma"
    /\ UNCHANGED <<utility, ma_groups, args, df_idx_mas, df_eod_mas,
                   idx_with_osc, idx_agg, idx_compress, ladder, trends>>

\* main.load_and_align_data: align_and_prepare_for_plot(index_df,
\* components_df); the function assigns the converted index to its two
\* arguments and returns new tables
AlignAndPrepareForPlotStep ==
    /\ pc = "align_and_prepare_for_plot"
    /\ components_df' = [components_df EXCEPT !.index = ToDatetime(@)]
    /\ index_df' = [index_df EXCEPT !.index = ToDatetime(@)]
    /\ LET a == AlignAndPrepareForPlot(index_df', components_df')
       IN  IF Raised(a)
           THEN df_idx' = a /\ df_eod' = a /\ pc' = "raised"
           ELSE /\ df_idx' = a.df1
                /\ df_eod' = a.df2
                /\ pc' = "calculate_idx_and_comp_ma_vwma"
    /\ UNCHANGED <<utility, ma_groups, args, df_idx_mas, df_eod_mas,
                   idx_with_osc, idx_agg, idx_compress, ladder, trends>>

\* df['Adj Close'] of a table without that column raises KeyError
MissingAdjClose(df) == "close" \notin DOMAIN df

CalculateIdxAndCompMaVwma ==
    /\ pc = "calculate_idx_and_comp_ma_vwma"
    /\ IF MissingAdjClose(df_idx) \/ MissingAdjClose(df_eod)
       THEN /\ df_idx_mas' = [error |-> "KeyError", names |-> {"Adj Close"}]
            /\ df_eod_mas' = df_eod_mas
            /\ pc' = "raised"
       ELSE /\ df_idx_mas' = IdxMas(df_idx, MasList(ma_groups))
            /\ df_eod_mas' = EodMas(df_eod, MasList(ma_groups))
            /\ pc' = "calc_conver_diver_oscillator"
    /\ UNCHANGED <<utility, index_df, components_df, df_idx, df_eod, ma_groups, args, idx_with_osc, idx_agg,
                   idx_compress, ladder, trends>>

\* variant: "df_result = df_idx_with_mas_vwmas" without the copy, so that
\* the columns of the oscillator are written into the caller's table
CalcConverDiverOscillatorInPlace ==
    /\ pc = "calc_conver_diver_oscillator"
    /\ idx_with_osc' = CalcConverDiverOscillator(df_idx_mas, ma_groups,
                           args.oscillator_type, args.zscore_mode,
                           args.oscillator_lookback)
    /\ df_idx_mas' = IF Raised(idx_with_osc') THEN df_idx_mas
                     ELSE [range_pct |-> idx_with_osc'.range_pct,
                           osc |-> idx_with_osc'.osc] @@ df_idx_mas
    /\ pc' = IF Raised(idx_with_osc') THEN "raised"
             ELSE "calculate_tickers_over_under_mas"
    /\ UNCHANGED <<utility, index_df, components_df, df_idx, df_eod, ma_groups, args, df_eod_mas,
                   idx_agg, idx_compress, ladder, trends>>

CalcConverDiverOscillatorStep ==
    /\ pc = "calc_conver_diver_oscillator"
    /\ idx_with_osc' = CalcConverDiverOscillator(df_idx_mas, ma_groups,
                           args.oscillator_type, args.zscore_mode,
                           args.oscillator_lookback)
    /\ pc' = IF Raised(idx_with_osc') THEN "raised"
             ELSE "calculate_tickers_over_under_mas"
    /\ UNCHANGED <<utility, index_df, components_df, df_idx, df_eod, ma_groups, args, df_idx_mas, df_eod_mas,
                   idx_agg, idx_compress, ladder, trends>>

CalculateTickersOverUnderMasStep ==
    /\ pc = "calculate_tickers_over_under_mas"
    /\ idx_agg' = CalculateTickersOverUnderMas(df_eod_mas, args.num_tickers,
                      args.neutral_band_pct, args.smooth_window)
    /\ pc' = "calculate_compressao_dispersao"
    /\ UNCHANGED <<utility, index_df, components_df, df_idx, df_eod, ma_groups, args, df_idx_mas, df_eod_mas,
                   idx_with_osc, idx_compress, ladder, trends>>

CalculateCompressaoDispersaoStep ==
    /\ pc = "calculate_compressao_dispersao"
    /\ idx_compress' = CalculateCompressaoDispersao(df_idx_mas, df_eod_mas, ma_groups)
    /\ pc' = "build_vwma_true_ladders"
    /\ UNCHANGED <<utility, index_df, components_df, df_idx, df_eod, ma_groups, args, df_idx_mas, df_eod_mas,
                   idx_with_osc, idx_agg, ladder, trends>>

BuildVwmaTrueLaddersStep ==
    /\ pc = "build_vwma_true_ladders"
    /\ ladder' = BuildVwmaTrueLadders(df_eod_mas, MasList(ma_groups), ma_groups)
    /\ pc' = IF Raised(ladder') THEN "raised" ELSE "calculate_trend_combinations"
    /\ UNCHANGED <<utility, index_df, components_df, df_idx, df_eod, ma_groups, args, df_idx_mas, df_eod_mas,
                   idx_with_osc, idx_agg, idx_compress, trends>>

CalculateTrendCombinationsStep ==
    /\ pc = "calculate_trend_combinations"
    /\ trends' = CalculateTrendCombinations(df_eod_mas, args.num_tickers,
                                            trend_combinations)
    /\ pc' = IF Raised(trends') THEN "raised" ELSE "done"
    /\ UNCHANGED <<utility, index_df, components_df, df_idx, df_eod, ma_groups, args, df_idx_mas, df_eod_mas,
                   idx_with_osc, idx_agg, idx_compress, ladder>>

Next ==
    \/ UpdateDatabases
    \/ AlignAndPrepareForPlotStep
    \/ CalculateIdxAndCompMaVwma
    \/ CalcConverDiverOscillatorStep
    \/ CalculateTickersOverUnderMasStep
    \/ CalculateCompressaoDispersaoStep
    \/ BuildVwmaTrueLaddersStep
    \/ CalculateTrendCombinationsStep

Spec == Init /\ [][Next]_vars

(***************************************************************************)
(* The four aggregators of main.compute_indicators called in any order on  *)
(* one MA/VWMA result                                                      *)
(***************************************************************************)
\* panels for the calls in any order: the index price and the price of
\* ticker A have up to two levels, around the same row and in opposite
\* directions, ticker B rises by one a day; both sets of groups, every
\* oscillator type and mode
InitGiven ==
    \E c \in Cuts, x \in [1..2 -> Levels(1, MaxPrice)] :
        /\ index_df = LoadedPanel(
               [close |-> StepSeries(c, c, <<x[1], x[2], x[2]>>),
                volume |-> RampSeries])
        /\ components_df = LoadedPanel(
               [close  |-> [k \in Tickers |->
                              IF k = "A" THEN StepSeries(c, c, <<x[2], x[1], x[1]>>)
                              ELSE RampSeries],
                volume |-> [k \in Tickers |-> ConstSeries(R(1))]])
        /\ ma_groups \in {ConstGroups, LadderGroups}
        /\ args \in OscArgs

\* the MA/VWMA result of the aligned panels is given, no aggregator has run
InitAnyOrder ==
    /\ InitGiven
    /\ LET a == AlignAndPrepareForPlot(index_df, components_df)
       IN  df_idx = a.df1 /\ df_eod = a.df2
    /\ df_idx_mas = IdxMas(df_idx, MasList(ma_groups))
    /\ df_eod_mas = EodMas(df_eod, MasList(ma_groups))
    /\ pc = "aggregators"
    /\ idx_with_osc = Unset
    /\ idx_agg = Unset
    /\ idx_compress = Unset
    /\ ladder = Unset
    /\ trends = Unset
    /\ call = Unset /\ locals = Unset /\ returned = Unset

\* the columns an aggregator adds to its copy of the index table
AddedColumns(x) == [a \in DOMAIN x \ {"base"} |-> x[a]]

\* an exception ends compute_indicators; it returns when the four have run
AfterCall(result, others) ==
    IF Raised(result) THEN "raised"
    ELSE IF \A o \in others : IsSet(o) THEN "done"
    ELSE "aggregators"

OscillatorAnyOrder ==
    /\ pc = "aggregators" /\ idx_with_osc = Unset
    /\ idx_with_osc' = CalcConverDiverOscillator(df_idx_mas, ma_groups,
                           args.oscillator_type, args.zscore_mode,
                           args.oscillator_lookback)
    /\ pc' = AfterCall(idx_with_osc', {idx_agg, idx_compress, ladder})
    /\ UNCHANGED <<utility, index_df, components_df, df_idx, df_eod, ma_groups, args,
                   df_idx_mas, df_eod_mas, idx_agg, idx_compress, ladder, trends>>

BreadthAnyOrder ==
    /\ pc = "aggregators" /\ idx_agg = Unset
    /\ idx_agg' = CalculateTickersOverUnderMas(df_eod_mas, args.num_tickers,
                      args.neutral_band_pct, args.smooth_window)
    /\ pc' = AfterCall(idx_agg', {idx_with_osc, idx_compress, ladder})
    /\ UNCHANGED <<utility, index_df, components_df, df_idx, df_eod, ma_groups, args,
                   df_idx_mas, df_eod_mas, idx_with_osc, idx_compress, ladder, trends>>

\* variant: calculate_compressao_dispersao without the copy of the index
\* table, so that its columns are written into the MA/VWMA result
CompressionAnyOrderInPlace ==
    /\ pc = "aggregators" /\ idx_compress = Unset
    /\ idx_compress' = CalculateCompressaoDispersao(df_idx_mas, df_eod_mas, ma_groups)
    /\ df_idx_mas' = AddedColumns(idx_compress') @@ df_idx_mas
    /\ pc' = AfterCall(idx_compress', {idx_with_osc, idx_agg, ladder})
    /\ UNCHANGED <<utility, index_df, components_df, df_idx, df_eod, ma_groups, args,
                   df_eod_mas, idx_with_osc, idx_agg, ladder, trends>>

CompressionAnyOrder ==
    /\ pc = "aggregators" /\ idx_compress = Unset
    /\ idx_compress' = CalculateCompressaoDispersao(df_idx_mas, df_eod_mas, ma_groups)
    /\ pc' = AfterCall(idx_compress', {idx_with_osc, idx_agg, ladder})
    /\ UNCHANGED <<utility, index_df, components_df, df_idx, df_eod, ma_groups, args,
                   df_idx_mas, df_eod_mas, idx_with_osc, idx_agg, ladder, trends>>

LadderAnyOrder ==
    /\ pc = "aggregators" /\ ladder = Unset
    /\ ladder' = BuildVwmaTrueLadders(df_eod_mas, MasList(ma_groups), ma_groups)
    /\ pc' = AfterCall(ladder', {idx_with_osc, idx_agg, idx_compress})
    /\ UNCHANGED <<utility, index_df, components_df, df_idx, df_eod, ma_groups, args,
                   df_idx_mas, df_eod_mas, idx_with_osc, idx_agg, idx_compress, trends>>

NextAnyOrder ==
    \/ OscillatorAnyOrder
    \/ BreadthAnyOrder
    \/ CompressionAnyOrder
    \/ LadderAnyOrder

SpecAnyOrder == InitAnyOrder /\ [][NextAnyOrder]_vars

(***************************************************************************)
(* Calls of the utility functions, one specification per function.  The    *)
(* pipeline is not running while a utility is called on its own.           *)
(***************************************************************************)
PipelineIdle ==
    /\ index_df = Unset /\ components_df = Unset /\ df_idx = Unset /\ df_eod = Unset
    /\ ma_groups = Unset /\ args = Unset /\ pc = "idle"
    /\ df_idx_mas = Unset /\ df_eod_mas = Unset /\ idx_with_osc = Unset
    /\ idx_agg = Unset /\ idx_compress = Unset /\ ladder = Unset /\ trends = Unset

(***************************************************************************)
(* utils.zscore.rolling_robust_zscore called on a series                   *)
(***************************************************************************)
ZLen == 5      \* rows of the series
ZMax == 7      \* the values of the series are drawn from 0..ZMax

\* the modes a caller may name: the configured ones and one that is not
ZscoreModes == DOMAIN DefaultScoreParams \cup {"intraday"}

\* a series with `lead` missing rows and then up to three levels
ZSeries(lead, c1, c2, x) ==
    [t \in 1..ZLen |-> IF t <= lead THEN NaN
                       ELSE IF t < c1 THEN R(x[1])
                       ELSE IF t < c2 THEN R(x[2]) ELSE R(x[3])]

InitZscore ==
    /\ PipelineIdle
    /\ \E lead \in 0..1, c1 \in 1..(ZLen + 1), c2 \in 1..(ZLen + 1) :
       \E x \in [1..3 -> 0..ZMax], mode \in ZscoreModes :
          /\ c1 <= c2
          /\ call = [fn |-> "rolling_robust_zscore",
                     series |-> ZSeries(lead, c1, c2, x),
                     mode |-> mode,
                     score_params |-> DefaultScoreParams]
    /\ locals = Unset
    /\ returned = Unset

\* what a call leaves behind: [value |-> ...] when it returns, the error
\* record when it raises
RollingRobustZscoreCall ==
    /\ call.fn = "rolling_robust_zscore" /\ returned = Unset
    /\ returned' = LET z == RollingRobustZscore(call.series, call.mode, call.score_params)
                    IN  IF call.mode \in DOMAIN call.score_params THEN [value |-> z] ELSE z
    /\ UNCHANGED <<pipeline, call, locals>>

NextZscore == RollingRobustZscoreCall

SpecZscore == InitZscore /\ [][NextZscore]_vars

(***************************************************************************)
(* main.compute_indicators on panels whose prices rise every day           *)
(***************************************************************************)
\* a price that starts at `start` and rises by `step` a day
RisingSeries(start, step) == [t \in Days |-> R(start + step * (t - 1))]

\* ticker A rises by a fixed step and has up to two levels of volume (zero
\* included), ticker B rises by one a day with a constant volume
InitRising ==
    /\ InitCommon
    /\ index_df = LoadedPanel([close |-> RampSeries, volume |-> ConstSeries(R(1))])
    /\ \E start \in 1..MaxPrice, step \in 1..MaxPrice, cv \in Cuts :
       \E va \in [1..2 -> Levels(0, MaxVol)] :
          components_df = LoadedPanel(
              [close  |-> [k \in Tickers |->
                             IF k = "A" THEN RisingSeries(start, step) ELSE RampSeries],
               volume |-> [k \in Tickers |->
                             IF k = "A" THEN StepSeries(cv, cv, <<va[1], va[2], va[2]>>)
                             ELSE ConstSeries(R(1))]])
    /\ ma_groups = LadderGroups
    /\ args = DefaultArgs

SpecRising == InitRising /\ [][Next]_vars

(***************************************************************************)
(* indicators.breakout_indicators.add_breakout_columns                     *)
(*                                                                         *)
(* The event masks added to df_eod_out, and the columns of df_idx_out that *)
(* count them (per event and the group-1 totals).  The smoothed and        *)
(* normalised columns of df_idx_out are computed from these counts and     *)
(* write nothing back; they are not part of the model.                     *)
(***************************************************************************)
BLen == 5        \* rows of the price panel
BMaxPrice == 2   \* prices are drawn from 0..BMaxPrice (and NaN)

\* close.pct_change(periods=period, fill_method=None)
PctChange(close, period) ==
    [t \in 1..Len(close) |->
        IF t <= period THEN NaN
        ELSE FSub(FDiv(close[t], close[t - period]), R(1))]

\* Series.shift(1)
Shift1(s) == [t \in 1..Len(s) |-> IF t = 1 THEN NaN ELSE s[t - 1]]

\* variant: the mask of the days on which the return is at or beyond the
\* threshold, without the crossing test
UpMaskLevel(pctchg, pct) ==
    [t \in 1..Len(pctchg) |-> IF FLe(pct, pctchg[t]) THEN 1 ELSE 0]

\* ((pctchg >= pct) & (pctchg.shift(1) < pct)).astype("int")
UpMask(pctchg, pct) ==
    LET prev == Shift1(pctchg)
    IN  [t \in 1..Len(pctchg) |->
            IF FLe(pct, pctchg[t]) /\ FLt(prev[t], pct) THEN 1 ELSE 0]

\* ((pctchg <= -pct) & (pctchg.shift(1) > -pct)).astype("int")
DownMask(pctchg, pct) ==
    LET prev == Shift1(pctchg)
    IN  [t \in 1..Len(pctchg) |->
            IF FLe(pctchg[t], FNeg(pct)) /\ FGt(prev[t], FNeg(pct)) THEN 1 ELSE 0]

\* a BreakoutCondition; the column names stand for "UP_{period}d_{pct}"
BreakoutCondition(plot_group, period_days, pct) ==
    [plot_group |-> plot_group, period_days |-> period_days, pct |-> pct,
     up_col |-> <<"UP", period_days, pct>>, down_col |-> <<"DOWN", period_days, pct>>]

RECURSIVE SumInts(_, _)
SumInts(f, S) ==
    IF S = {} THEN 0
    ELSE LET x == CHOOSE x \in S : TRUE IN f[x] + SumInts(f, S \ {x})

\* close: ticker -> price series; conditions: a non-empty sequence
AddBreakoutColumns(close, conditions) ==
    LET conds == SeqToSet(conditions)
        n == Len(close[CHOOSE k \in DOMAIN close : TRUE])
        pctchg(c, k) == PctChange(close[k], c.period_days)
        up == [name \in {c.up_col : c \in conds} |->
                 LET c == CHOOSE c \in conds : c.up_col = name
                 IN  [k \in DOMAIN close |-> UpMask(pctchg(c, k), c.pct)]]
        down == [name \in {c.down_col : c \in conds} |->
                   LET c == CHOOSE c \in conds : c.down_col = name
                   IN  [k \in DOMAIN close |-> DownMask(pctchg(c, k), c.pct)]]
        new_cols == up @@ down
        counts == [name \in DOMAIN new_cols |->
                      [t \in 1..n |->
                          SumInts([k \in DOMAIN close |-> new_cols[name][k][t]], DOMAIN close)]]
        group1_up == {c.up_col : c \in {d \in conds : d.plot_group = 1}}
        group1_down == {c.down_col : c \in {d \in conds : d.plot_group = 1}}
    IN  [df_eod_out |-> new_cols,
         df_idx_out |->
             [counts |-> counts,
              Total_Breakouts |->
                  [t \in 1..n |-> SumInts([name \in group1_up |-> counts[name][t]], group1_up)],
              Total_Breakdowns |->
                  [t \in 1..n |-> SumInts([name \in group1_down |-> counts[name][t]], group1_down)]]]

\* the thresholds of the conditions: 4 %, 50 % and 100 %
Thresholds == {Q(1, 25), Q(1, 2), R(1)}

\* ticker A has any prices (zero and missing included), ticker B moves
\* between two prices; one condition, or two conditions of different groups
InitBreakout ==
    /\ PipelineIdle
    /\ \E a \in [1..BLen -> {NaN} \cup Levels(0, BMaxPrice)] :
       \E conditions \in
             {<<BreakoutCondition(1, p, pct)>> : p \in 1..2, pct \in Thresholds}
                 \cup {<<BreakoutCondition(1, 1, Q(1, 25)), BreakoutCondition(2, 2, Q(1, 2))>>} :
          call = [fn |-> "add_breakout_columns",
                  close |-> [k \in Tickers |->
                               IF k = "A" THEN a
                               ELSE [t \in 1..BLen |-> R(1 + ((t \div 2) % 2))]],
                  conditions |-> conditions]
    /\ locals = Unset
    /\ returned = Unset

AddBreakoutColumnsCall ==
    /\ call.fn = "add_breakout_columns" /\ returned = Unset
    /\ returned' = [value |-> AddBreakoutColumns(call.close, call.conditions)]
    /\ UNCHANGED <<pipeline, call, locals>>

NextBreakout == AddBreakoutColumnsCall

SpecBreakout == InitBreakout /\ [][NextBreakout]_vars

(***************************************************************************)
(* indicators.adv_dec_indicators.compute_zbt_thrust                        *)
(***************************************************************************)
TLen == 5          \* rows of the zbt series
MaxLookback == 2   \* lookback is drawn from 1..MaxLookback

\* thrust_trigger: zbt at or above upper, with a value at or below lower
\* among the rows start..i-1, start = max(0, i - lookback)
ThrustTrigger(zbt, lookback, lower, upper) ==
    [i \in 1..Len(zbt) |->
        /\ FLe(upper, zbt[i])
        /\ \E j \in (IF i - lookback < 1 THEN 1 ELSE i - lookback)..(i - 1) :
              FLe(zbt[j], lower)]

\* variant: the regime is extended from the trigger of the day before and
\* not from the regime of the day before
RECURSIVE ThrustActiveOneDay(_, _, _, _)
ThrustActiveOneDay(trigger, zbt, lower, i) ==
    IF i = 1 THEN trigger[1]
    ELSE trigger[i] \/ (trigger[i - 1] /\ FLe(lower, zbt[i]))

\* thrust_active at row i: the second loop writes row i after row i-1
RECURSIVE ThrustActive(_, _, _, _)
ThrustActive(trigger, zbt, lower, i) ==
    IF i = 1 THEN trigger[1]
    ELSE trigger[i] \/ (ThrustActive(trigger, zbt, lower, i - 1) /\ FLe(lower, zbt[i]))

ComputeZbtThrust(zbt, lookback, lower, upper) ==
    LET thrust_trigger == ThrustTrigger(zbt, lookback, lower, upper)
    IN  [i \in 1..Len(zbt) |-> ThrustActive(thrust_trigger, zbt, lower, i)]

\* the values of the breadth ratio, and the bounds (lower, upper) a caller
\* passes: between the values, on the values, and equal
ZbtLevels == {NaN, R(0), R(1), R(2)}
ZbtBounds == {<<Q(1, 2), Q(3, 2)>>, <<R(0), R(2)>>, <<R(1), R(1)>>}

InitZbt ==
    /\ PipelineIdle
    /\ \E zbt \in [1..TLen -> ZbtLevels], lookback \in 1..MaxLookback, b \in ZbtBounds :
          call = [fn |-> "compute_zbt_thrust", zbt |-> zbt, lookback |-> lookback,
                  lower |-> b[1], upper |-> b[2]]
    /\ locals = Unset
    /\ returned = Unset

ComputeZbtThrustCall ==
    /\ call.fn = "compute_zbt_thrust" /\ returned = Unset
    /\ returned' = [value |-> ComputeZbtThrust(call.zbt, call.lookback, call.lower, call.upper)]
    /\ UNCHANGED <<pipeline, call, locals>>

NextZbt == ComputeZbtThrustCall

SpecZbt == InitZbt /\ [][NextZbt]_vars

(***************************************************************************)
(* main_modules.update_databases.update_indexes, for one index file        *)
(*                                                                         *)
(* A table is a sequence of rows [date, close, volume]; dates are day       *)
(* numbers.  The file read is sorted and free of duplicate dates (it was   *)
(* written by this function or by create_databases), so that the sort and  *)
(* the de-duplication after the read change nothing.                       *)
(***************************************************************************)
UDays == 4     \* the calendar: dates 1..UDays

Row(d, c, v) == [date |-> d, close |-> c, volume |-> v]
DatesIn(rows) == {rows[i].date : i \in 1..Len(rows)}

\* "Drop last-zero-volume line if necessary"
DropLastZeroVolume(df) ==
    IF df # <<>> /\ df[Len(df)].volume = R(0) THEN SubSeq(df, 1, Len(df) - 1) ELSE df

\* df[col].last_valid_index(): the rows with a price
ValidRows(df) == {i \in 1..Len(df) : NotNa(df[i].close)}
LastValidIndex(df) == df[CHOOSE i \in ValidRows(df) : \A j \in ValidRows(df) : j <= i].date

\* start_update: the last valid date of the file, or config.yf_start_date
StartUpdate(df) ==
    LET d == DropLastZeroVolume(df)
    IN  IF ValidRows(d) = {} THEN 1 ELSE LastValidIndex(d)

\* Index.is_monotonic_increasing
IsMonotonicIncreasing(rows) ==
    \A i \in 1..(Len(rows) - 1) : rows[i].date <= rows[i + 1].date

Reverse(s) == [i \in 1..Len(s) |-> s[Len(s) + 1 - i]]

\* rows of the dates of ds (ascending), the rows of one date in their order
\* in `rows`, reversed for the dates in `flipped`
RECURSIVE RowsByDate(_, _, _)
RowsByDate(rows, ds, flipped) ==
    IF ds = <<>> THEN <<>>
    ELSE LET same == SelectSeq(rows, LAMBDA r : r.date = ds[1])
         IN  (IF ds[1] \in flipped THEN Reverse(same) ELSE same)
                 \o RowsByDate(rows, Tail(ds), flipped)

\* DataFrame.sort_index(): a table whose index is already monotonic is
\* returned as it is; otherwise it is sorted with kind='quicksort', which is
\* not a stable sort: the rows of one date come out in either order, and
\* `flipped` are the dates whose rows come out reversed
SortIndex(rows, flipped) ==
    IF IsMonotonicIncreasing(rows) THEN rows
    ELSE RowsByDate(rows, SortedSeq(DatesIn(rows)), flipped)

\* rows[~rows.index.duplicated(keep="last")]
DropDuplicatesKeepLast(rows) ==
    LET keep == {i \in 1..Len(rows) : \A j \in (i + 1)..Len(rows) : rows[j].date # rows[i].date}
    IN  [n \in 1..Cardinality(keep) |->
            rows[CHOOSE i \in keep : Cardinality({j \in keep : j <= i}) = n]]

\* the result of one pass of the loop: the table returned for the index and
\* whether the file was rewritten
UpdateIndexes(file, new_data, requested_last_date, last_yahoo_end_date, flipped) ==
    LET df == DropLastZeroVolume(file)
        skip == /\ ValidRows(df) # {}
                /\ \/ LastValidIndex(df) >= requested_last_date
                   \/ LastValidIndex(df) >= last_yahoo_end_date
        updated == SelectSeq(
                       DropDuplicatesKeepLast(SortIndex(df \o new_data, flipped)),
                       LAMBDA r : r.date <= requested_last_date)
    IN  IF skip THEN [df |-> df, saved |-> FALSE, merged |-> FALSE]
        ELSE IF new_data = <<>> THEN [df |-> df, saved |-> FALSE, merged |-> FALSE]
        ELSE IF updated # df THEN [df |-> updated, saved |-> TRUE, merged |-> TRUE]
        ELSE [df |-> df, saved |-> FALSE, merged |-> TRUE]

\* the file: rows for the dates 1..n, the last `missing` of them without a
\* price, the last row with or without volume
IndexFile(n, missing, last_volume) ==
    [i \in 1..n |-> Row(i, IF i > n - missing THEN NaN ELSE R(1),
                        IF i = n THEN R(last_volume) ELSE R(1))]

\* yf.download(start=, end=): rows with price c for the dates lo..hi
Download(lo, hi, c) == [i \in 1..(hi - lo + 1) |-> Row(lo + i - 1, R(c), R(1))]

InitUpdateIndexes ==
    /\ PipelineIdle
    /\ \E n \in 0..(UDays - 1), missing \in 0..(UDays - 1), last_volume \in 0..1 :
       \E requested \in 1..UDays, ahead \in 1..2, lo \in 1..UDays, hi \in 0..(UDays + 1), c \in 1..2 :
          /\ missing <= n
          /\ lo >= StartUpdate(IndexFile(n, missing, last_volume))
          /\ hi < requested + ahead
          /\ call = [fn |-> "update_indexes",
                     file |-> IndexFile(n, missing, last_volume),
                     new_data |-> Download(lo, hi, c),
                     requested_last_date |-> requested,
                     last_yahoo_end_date |-> requested + ahead]
    /\ locals = Unset
    /\ returned = Unset

\* the dates that are in the file and in the download
Overlap == DatesIn(DropLastZeroVolume(call.file)) \cap DatesIn(call.new_data)

UpdateIndexesCall ==
    /\ call.fn = "update_indexes" /\ returned = Unset
    /\ \E flipped \in SUBSET Overlap :
          returned' = [value |-> UpdateIndexes(call.file, call.new_data,
                                     call.requested_last_date,
                                     call.last_yahoo_end_date, flipped)]
    /\ UNCHANGED <<pipeline, call, locals>>

NextUpdateIndexes == UpdateIndexesCall

SpecUpdateIndexes == InitUpdateIndexes /\ [][NextUpdateIndexes]_vars

(***************************************************************************)
(* main_modules.bcb_fetcher._generate_chunks and                           *)
(* main_modules.build_bcb_files.generate_date_chunks (the same code)        *)
(*                                                                         *)
(* A date is a day number in a calendar whose years all have DaysPerYear   *)
(* days: year y runs from Jan1(y) to Dec31(y).  The generator is a loop;   *)
(* one action is one pass through the loop body up to the yield, and the   *)
(* generator is exhausted when the loop condition fails.                   *)
(***************************************************************************)
DaysPerYear == 2     \* days of a calendar year
CalYears == 4        \* the calendar: years 0..CalYears - 1
MaxYearsPerRequest == 2     \* max_years \in 1..MaxYearsPerRequest

CalDates == 0..(CalYears * DaysPerYear - 1)

\* d.year
YearOf(d) == d \div DaysPerYear
\* date(y, 1, 1)
Jan1(y) == y * DaysPerYear
\* date(y, 12, 31)
Dec31(y) == y * DaysPerYear + DaysPerYear - 1

\* variant: the end of the chunk is not cut at end
ChunkEndUncut(cur, end, max_years) == Dec31(YearOf(cur) + max_years - 1)

\* year_limit = cur.year + max_years - 1; chunk_end = date(year_limit, 12, 31),
\* cut at end
ChunkEnd(cur, end, max_years) ==
    LET year_limit == YearOf(cur) + max_years - 1
        chunk_end  == Dec31(year_limit)
    IN  IF chunk_end > end THEN end ELSE chunk_end

\* cur = date(chunk_end.year + 1, 1, 1)
NextStart(chunk_end) == Jan1(YearOf(chunk_end) + 1)

InitChunks ==
    /\ PipelineIdle
    /\ \E start \in CalDates, end \in CalDates, max_years \in 1..MaxYearsPerRequest :
          /\ call = [fn |-> "_generate_chunks", start |-> start, end |-> end,
                     max_years |-> max_years]
          /\ locals = [cur |-> start, yielded |-> <<>>]
    /\ returned = Unset

\* while cur <= end: ... yield cur, chunk_end; cur = ...
GenerateChunksYield ==
    /\ call.fn = "_generate_chunks" /\ returned = Unset
    /\ locals.cur <= call.end
    /\ LET chunk_end == ChunkEnd(locals.cur, call.end, call.max_years)
       IN  locals' = [cur |-> NextStart(chunk_end),
                      yielded |-> Append(locals.yielded, <<locals.cur, chunk_end>>)]
    /\ UNCHANGED <<pipeline, call, returned>>

\* the loop condition fails: the generator is exhausted
GenerateChunksStop ==
    /\ call.fn = "_generate_chunks" /\ returned = Unset
    /\ ~(locals.cur <= call.end)
    /\ returned' = [value |-> locals.yielded]
    /\ UNCHANGED <<pipeline, call, locals>>

NextChunks == GenerateChunksYield \/ GenerateChunksStop

\* the loop makes no blocking call: a generator that can step does step
SpecChunks == InitChunks /\ [][NextChunks]_vars /\ WF_vars(NextChunks)


(***************************************************************************)
(* main_modules.bcb_fetcher.fetch_series                                   *)
(*                                                                         *)
(* One action is one pass through the loop over the chunks: the request,   *)
(* the parse, the column test and the cleaning of one chunk.  An           *)
(* observation is a record [data, valor]; valor NaN is a value that the    *)
(* cleaning could not read.  locals.responses records, for every request   *)
(* made, the chunk asked for and whether its frame was kept.               *)
(***************************************************************************)
LEGACY_JSON_ALWAYS == {11, 1178}
SgsCodes == {11, 432}

Obs(d, v) == [data |-> d, valor |-> v]

RECURSIVE GenerateChunks(_, _, _)
\* list(_generate_chunks(start, end, max_years=max_years))
GenerateChunks(cur, end, max_years) ==
    IF cur <= end
    THEN LET chunk_end == ChunkEnd(cur, end, max_years)
         IN  <<<<cur, chunk_end>>>> \o GenerateChunks(NextStart(chunk_end), end, max_years)
    ELSE <<>>

\* the bodies a request for the chunk cs..ce is answered with, once parsed:
\* no observation, one observation per day, or observations out of order
\* with a repeated date, a zero and an unreadable value
JsonRows(cs, ce) ==
    { <<>>,
      [i \in 1..(ce - cs + 1) |-> Obs(cs + i - 1, R(1))],
      <<Obs(ce, R(0)), Obs(cs, NaN), Obs(cs, R(2))>> }

\* df.loc[df["valor"] == 0, "valor"] = pd.NA, for the legacy series
ZeroToNa(sgs_code, rows) ==
    IF sgs_code \in LEGACY_JSON_ALWAYS
    THEN [i \in 1..Len(rows) |-> IF rows[i].valor = R(0) THEN Obs(rows[i].data, NaN) ELSE rows[i]]
    ELSE rows

RECURSIVE Concat(_)
\* pd.concat(all_dfs, ignore_index=True)
Concat(dfs) == IF dfs = <<>> THEN <<>> ELSE Head(dfs) \o Concat(Tail(dfs))

\* combined.drop_duplicates(subset=["data"]): the first row of a date is kept
DropDuplicatesData(rows) ==
    LET keep == {i \in 1..Len(rows) : \A j \in 1..(i - 1) : rows[j].data # rows[i].data}
    IN  [n \in 1..Cardinality(keep) |->
            rows[CHOOSE i \in keep : Cardinality({j \in keep : j <= i}) = n]]

\* .sort_values("data"), on rows of distinct dates
SortValuesData(rows) ==
    LET dates == SortedSeq({rows[i].data : i \in 1..Len(rows)})
    IN  [k \in 1..Len(dates) |-> rows[CHOOSE i \in 1..Len(rows) : rows[i].data = dates[k]]]

RECURSIVE Ffill(_)
\* series.ffill()
Ffill(series) ==
    IF Len(series) <= 1 THEN series
    ELSE LET front == Ffill(SubSeq(series, 1, Len(series) - 1))
             last  == series[Len(series)]
         IN  Append(front, IF IsNaN(last.valor)
                           THEN Obs(last.data, front[Len(front)].valor)
                           ELSE last)

\* variant: a failed chunk ends the loop
SkipChunkStops(l, chunk) ==
    [l EXCEPT !.i = Len(l.chunks),
              !.responses = Append(@, [chunk |-> chunk, kept |-> FALSE, rows |-> <<>>])]

\* continue: the next chunk, all_dfs as it was
SkipChunk(l, chunk) ==
    [l EXCEPT !.i = @ + 1,
              !.responses = Append(@, [chunk |-> chunk, kept |-> FALSE, rows |-> <<>>])]

\* all_dfs.append(df[["data", "valor"]])
KeepChunk(l, chunk, rows) ==
    [l EXCEPT !.i = @ + 1,
              !.all_dfs = Append(@, rows),
              !.responses = Append(@, [chunk |-> chunk, kept |-> TRUE, rows |-> rows])]

InitFetchSeries ==
    /\ PipelineIdle
    /\ \E sgs_code \in SgsCodes, start \in CalDates, end \in CalDates,
          max_years \in 1..MaxYearsPerRequest :
          /\ call = [fn |-> "fetch_series", sgs_code |-> sgs_code, start |-> start,
                     end |-> end, max_years |-> max_years]
          /\ locals = [chunks |-> GenerateChunks(start, end, max_years), i |-> 0,
                       all_dfs |-> <<>>, responses |-> <<>>]
    /\ returned = Unset

InLoop == call.fn = "fetch_series" /\ returned = Unset /\ locals.i < Len(locals.chunks)
ThisChunk == locals.chunks[locals.i + 1]

\* requests.get / raise_for_status raises HTTPError or RequestException
RequestFails ==
    /\ InLoop
    /\ locals' = SkipChunk(locals, ThisChunk)
    /\ UNCHANGED <<pipeline, call, returned>>

\* r.json() raises
JsonFails ==
    /\ InLoop
    /\ locals' = SkipChunk(locals, ThisChunk)
    /\ UNCHANGED <<pipeline, call, returned>>

\* "data" or "valor" is not a column of the frame
ColumnsUnexpected ==
    /\ InLoop
    /\ locals' = SkipChunk(locals, ThisChunk)
    /\ UNCHANGED <<pipeline, call, returned>>

\* the chunk is parsed, cleaned and appended
ChunkFetched ==
    /\ InLoop
    /\ \E rows \in JsonRows(ThisChunk[1], ThisChunk[2]) :
          locals' = KeepChunk(locals, ThisChunk, ZeroToNa(call.sgs_code, rows))
    /\ UNCHANGED <<pipeline, call, returned>>

\* after the loop: the empty series, or the frames combined
FetchSeriesResult(sgs_code, all_dfs) ==
    IF all_dfs = <<>> THEN <<>>
    ELSE LET combined == SortValuesData(DropDuplicatesData(Concat(all_dfs)))
         IN  IF sgs_code \in LEGACY_JSON_ALWAYS THEN Ffill(combined) ELSE combined

FetchSeriesReturn ==
    /\ call.fn = "fetch_series" /\ returned = Unset
    /\ locals.i >= Len(locals.chunks)
    /\ returned' = [value |-> FetchSeriesResult(call.sgs_code, locals.all_dfs)]
    /\ UNCHANGED <<pipeline, call, locals>>

NextFetchSeries ==
    \/ RequestFails
    \/ JsonFails
    \/ ColumnsUnexpected
    \/ ChunkFetched
    \/ FetchSeriesReturn

SpecFetchSeries == InitFetchSeries /\ [][NextFetchSeries]_vars


(***************************************************************************)
(* main_modules.build_bcb_files.build_bcb_files, for one series of         *)
(* BCB_SERIES: the column of the raw file, if there is one, merged with    *)
(* the observations fetched from the day after the file's last date.       *)
(***************************************************************************)
MaxOld == 3     \* dates of the existing file: 1..n, n <= MaxOld
MaxNew == 2     \* observations fetched: at most MaxNew

BcbValues == {NaN, R(1), R(2)}

\* .sort_index(), on a series of distinct dates
SortIndexSeries(rows) == SortValuesData(rows)

\* Series.drop_duplicates(): the first row of every VALUE is kept (missing
\* values count as one value)
DropDuplicates(rows) ==
    LET keep == {i \in 1..Len(rows) : \A j \in 1..(i - 1) : rows[j].valor # rows[i].valor}
    IN  [n \in 1..Cardinality(keep) |->
            rows[CHOOSE i \in keep : Cardinality({j \in keep : j <= i}) = n]]

\* one pass of the loop over BCB_SERIES: the series put into all_series, if any
MergeSeries(has_old, s_old, s_new) ==
    IF has_old
    THEN [added |-> TRUE,
          series |-> IF s_new = <<>> THEN s_old
                     ELSE DropDuplicates(SortIndexSeries(s_old \o s_new))]
    ELSE IF s_new = <<>> THEN [added |-> FALSE, series |-> <<>>]
         ELSE [added |-> TRUE, series |-> s_new]

InitBuildBcb ==
    /\ PipelineIdle
    /\ \E n \in 1..MaxOld, k \in 0..MaxNew, has_old \in BOOLEAN :
          \E old \in [1..n -> BcbValues], new \in [1..k -> BcbValues] :
             call = [fn |-> "build_bcb_files", has_old |-> has_old,
                     last_date_global |-> n,
                     s_old |-> IF has_old THEN [d \in 1..n |-> Obs(d, old[d])] ELSE <<>>,
                     s_new |-> [j \in 1..k |-> Obs(n + j, new[j])]]
    /\ locals = Unset
    /\ returned = Unset

BuildBcbFilesSeries ==
    /\ call.fn = "build_bcb_files" /\ returned = Unset
    /\ returned' = [value |-> MergeSeries(call.has_old, call.s_old, call.s_new)]
    /\ UNCHANGED <<pipeline, call, locals>>

NextBuildBcb == BuildBcbFilesSeries

SpecBuildBcb == InitBuildBcb /\ [][NextBuildBcb]_vars


(***************************************************************************)
(* Properties                                                              *)
(***************************************************************************)
Kinds == {"MA", "VWMA"}

\* number of tickers with a non-null price on date t
ActiveCount(t) == Cardinality({k \in Tickers : NotNa(df_eod.close[k][t])})

PctOf(count, total) == FMul(FDiv(R(count), R(total)), R(100))

\* C1: on every date with at least one active ticker, and for every window,
\* the breadth counts above + below + neutral add up to the number of
\* active tickers (for the MA and the VWMA counts).
C1_BreadthPartition ==
    IsSet(idx_agg) =>
        \A kind \in Kinds : \A w \in DOMAIN idx_agg[kind] : \A t \in Days :
            ActiveCount(t) > 0 =>
                idx_agg[kind][w].num_above[t] + idx_agg[kind][w].num_below[t]
                    + idx_agg[kind][w].num_neutral[t] = ActiveCount(t)

\* number of tickers on the ladder rung at date t
RungCount(rung, t) ==
    Cardinality({k \in Tickers :
        StrictLadderCondition(df_eod_mas.close[k][t],
            [i \in 1..Len(rung) |-> df_eod_mas.VWMA[rung[i]][k][t]])})

LadderNames == {"main", "mini40", "mini80"}

LadderPeriods(name) ==
    IF name = "main" THEN MasList(ma_groups)
    ELSE IF name = "mini40" THEN ma_groups["medium"] ELSE ma_groups["long"]

\* C2: every (unsmoothed) breadth percentage and every ladder percentage at
\* date t is count / (number of tickers with a price at t) * 100.
C2_ActiveDenominator ==
    /\ (IsSet(idx_agg) /\ args.smooth_window <= 1) =>
          \A kind \in Kinds : \A w \in DOMAIN idx_agg[kind] : \A t \in Days :
              ActiveCount(t) > 0 =>
                  /\ idx_agg[kind][w].pct_above[t]
                        = PctOf(idx_agg[kind][w].num_above[t], ActiveCount(t))
                  /\ idx_agg[kind][w].pct_below[t]
                        = PctOf(idx_agg[kind][w].num_below[t], ActiveCount(t))
                  /\ idx_agg[kind][w].pct_neutral[t]
                        = PctOf(idx_agg[kind][w].num_neutral[t], ActiveCount(t))
    /\ (IsSet(ladder) /\ ~Raised(ladder)) =>
          \A name \in LadderNames : \A i \in 1..Len(ladder[name]) : \A t \in Days :
              ActiveCount(t) > 0 =>
                  ladder[name][i][t]
                      = PctOf(RungCount(SubSeq(LadderPeriods(name), 1, i), t),
                              ActiveCount(t))

\* C3: for every date and every ladder (main or mini), the percentage of
\* prefix length k+1 is at most the percentage of prefix length k.
C3_LadderMonotone ==
    (IsSet(ladder) /\ ~Raised(ladder)) =>
        \A name \in LadderNames : \A i \in 1..(Len(ladder[name]) - 1) : \A t \in Days :
            FLe(ladder[name][i + 1][t], ladder[name][i][t])

\* a date on which the main ladder really narrows: some tickers reach the
\* second rung, more reach the first
C3_Witness ==
    /\ IsSet(ladder) /\ ~Raised(ladder)
    /\ \E t \in Days :
          /\ FGt(ladder.main[2][t], R(0))
          /\ FGt(ladder.main[1][t], ladder.main[2][t])
          /\ FGt(ladder.mini40[2][t], R(0))

\* C4: for every date and window, |Dir| <= Abs and Abs >= 0, for the MA and
\* the VWMA compression sums, also with missing values and zero prices.
C4_CompressionBound ==
    IsSet(idx_compress) =>
        \A w \in DOMAIN idx_compress.Abs_MA : \A t \in Days :
            /\ FLe(R(0), idx_compress.Abs_MA[w][t])
            /\ FLe(R(0), idx_compress.Abs_VWMA[w][t])
            /\ FLe(FAbs(idx_compress.Dir_MA[w][t]), idx_compress.Abs_MA[w][t])
            /\ FLe(FAbs(idx_compress.Dir_VWMA[w][t]), idx_compress.Abs_VWMA[w][t])

\* a date with one ticker above and the other below its average (the signed
\* sum is strictly inside the absolute sum), a date with a zero price and an
\* infinite sum, and a missing price
C4_Witness ==
    /\ IsSet(idx_compress)
    /\ \E w \in DOMAIN idx_compress.Abs_MA : \E t \in Days :
          /\ IsFin(idx_compress.Abs_MA[w][t])
          /\ FLt(FAbs(idx_compress.Dir_MA[w][t]), idx_compress.Abs_MA[w][t])
    /\ \E k \in Tickers : \E t \in Days : df_eod.close[k][t] = R(0)
    /\ \E k \in Tickers : \E t \in Days : IsNaN(df_eod.close[k][t])
    /\ \E w \in DOMAIN idx_compress.Abs_MA : \E t \in Days :
          idx_compress.Abs_MA[w][t] = PInf

\* the non-missing values of x over the trailing window of date t
WindowVals(x, t, lookback) ==
    {x[k] : k \in {j \in 1..t : j > t - lookback /\ NotNa(x[j])}}

\* C5: the minmax oscillator is in [0, 1] and never NaN or infinite; it is 0
\* on dates where the rolling max equals the rolling min and on dates where
\* the input ratio is undefined.
C5_MinMaxBounded ==
    (IsSet(idx_with_osc) /\ args.oscillator_type = "minmax") =>
        \A c \in DOMAIN idx_with_osc.osc : \A t \in Days :
            LET x == idx_with_osc.range_pct[c]
                o == idx_with_osc.osc[c][t]
            IN  /\ IsFin(o) /\ FLe(R(0), o) /\ FLe(o, R(1))
                /\ (IsNaN(x[t])
                      \/ Cardinality(WindowVals(x, t, args.oscillator_lookback)) <= 1)
                   => o = R(0)

\* a minmax run with a flat window on a defined ratio, a value strictly
\* between 0 and 1 and a value 1
C5_Witness ==
    /\ IsSet(idx_with_osc) /\ args.oscillator_type = "minmax"
    /\ \E t \in Days :
          /\ NotNa(idx_with_osc.range_pct.MA_no200[t])
          /\ Cardinality(WindowVals(idx_with_osc.range_pct.MA_no200, t,
                                    args.oscillator_lookback)) = 1
    /\ \E t \in Days : idx_with_osc.osc.MA_no200[t] = R(1)
    /\ \E t \in Days : /\ FLt(R(0), idx_with_osc.osc.MA_no200[t])
                       /\ FLt(idx_with_osc.osc.MA_no200[t], R(1))

\* the input panels truncated to the rows with date <= t
TruncIdx(t) ==
    [close |-> SubSeq(df_idx.close, 1, t), volume |-> SubSeq(df_idx.volume, 1, t)]

TruncEod(t) ==
    [close  |-> [k \in Tickers |-> SubSeq(df_eod.close[k], 1, t)],
     volume |-> [k \in Tickers |-> SubSeq(df_eod.volume[k], 1, t)]]

Finished == pc \in {"done", "raised"}

\* the rows with date <= t of a table of series (any nesting depth d)
Head1(x, t) == [a \in DOMAIN x |-> SubSeq(x[a], 1, t)]
Head2(x, t) == [a \in DOMAIN x |-> Head1(x[a], t)]
Head3(x, t) == [a \in DOMAIN x |-> Head2(x[a], t)]

\* C6: the value at date t of every output of the MA/VWMA engine, of the
\* breadth, ladder and compression aggregators and of the oscillator (minmax
\* and zscore) is the same on the full panel and on the panel truncated to
\* the rows with date <= t: the run on the truncated panel returns the rows
\* with date <= t of the run on the full panel.  (At the last date the
\* truncated panel is the full panel: the dates before it are compared.)
C6_Causal ==
    (Finished /\ IsSet(df_eod_mas)) =>
        \A t \in Days \ {MaxDays} :
            LET im == IdxMas(TruncIdx(t), MasList(ma_groups))
                em == EodMas(TruncEod(t), MasList(ma_groups))
                agg == CalculateTickersOverUnderMas(em, args.num_tickers,
                           args.neutral_band_pct, args.smooth_window)
                cmp == CalculateCompressaoDispersao(im, em, ma_groups)
                lad == BuildVwmaTrueLadders(em, MasList(ma_groups), ma_groups)
                osc == CalcConverDiverOscillator(im, ma_groups, args.oscillator_type,
                           args.zscore_mode, args.oscillator_lookback)
            IN  /\ \A kind \in Kinds :
                      /\ im[kind] = Head1(df_idx_mas[kind], t)
                      /\ em[kind] = Head2(df_eod_mas[kind], t)
                /\ IsSet(idx_agg) => agg = Head3(idx_agg, t)
                /\ IsSet(idx_compress) =>
                      AddedColumns(cmp) = Head2(AddedColumns(idx_compress), t)
                /\ IF Raised(ladder) THEN lad = ladder
                   ELSE \A name \in LadderNames : lad[name] = Head1(ladder[name], t)
                /\ IF Raised(idx_with_osc) THEN osc = idx_with_osc
                   ELSE AddedColumns(osc) = Head2(AddedColumns(idx_with_osc), t)

\* a finished run whose oscillator moves before the last date and whose
\* input changes afterwards
C6_Witness ==
    /\ Finished /\ IsSet(idx_with_osc) /\ ~Raised(idx_with_osc)
    /\ \E t \in 1..(MaxDays - 1) :
          /\ idx_with_osc.osc.MA_no200[t] # R(0)
          /\ FGt(idx_with_osc.range_pct.MA_no200[t + 1],
                 idx_with_osc.range_pct.MA_no200[t])

\* the series of the index and of every ticker, with their averages
AllSeries ==
    {[close |-> df_idx.close, volume |-> df_idx.volume,
      MA |-> df_idx_mas.MA, VWMA |-> df_idx_mas.VWMA]}
    \cup {[close |-> df_eod.close[k], volume |-> df_eod.volume[k],
           MA |-> [w \in DOMAIN df_eod_mas.MA |-> df_eod_mas.MA[w][k]],
           VWMA |-> [w \in DOMAIN df_eod_mas.VWMA |-> df_eod_mas.VWMA[w][k]]]
          : k \in Tickers}

Window(t, w) == (t - w + 1)..t

\* sum of the (integer) values f[k] over the window
RECURSIVE IntSum(_, _)
IntSum(f, S) ==
    IF S = {} THEN 0
    ELSE LET k == CHOOSE k \in S : TRUE IN f[k] + IntSum(f, S \ {k})

\* prices and volumes of the panels are whole numbers: their numerators
Num(s) == [k \in 1..Len(s) |-> s[k][1]]
NumProd(s, u) == [k \in 1..Len(s) |-> s[k][1] * u[k][1]]

\* C7: for the index and every ticker and every window w, MA{w}[t] is the
\* mean of AdjClose over the trailing w rows and VWMA{w}[t] is
\* sum(AdjClose*Volume) / sum(Volume) over them; both are NaN on the first
\* w-1 rows and on rows whose trailing window has a missing price.
C7_MaVwmaValues ==
    IsSet(df_eod_mas) =>
        \A s \in AllSeries : \A w \in DOMAIN s.MA : \A t \in Days :
            IF t < w \/ \E k \in Window(t, w) : IsNaN(s.close[k])
            THEN s.MA[w][t] = NaN /\ s.VWMA[w][t] = NaN
            ELSE /\ s.MA[w][t] = Q(IntSum(Num(s.close), Window(t, w)), w)
                 /\ s.VWMA[w][t] =
                       FDiv(R(IntSum(NumProd(s.close, s.volume), Window(t, w))),
                            R(IntSum(Num(s.volume), Window(t, w))))

\* averages of a ticker with a missing row inside a window, and a full
\* window on which the volume weights move the VWMA away from the MA
C7_Witness ==
    /\ IsSet(df_eod_mas)
    /\ \E s \in AllSeries : \E w \in DOMAIN s.MA : \E t \in Days :
          /\ IsFin(s.MA[w][t]) /\ IsFin(s.VWMA[w][t])
          /\ s.MA[w][t] # s.VWMA[w][t]
    /\ \E s \in AllSeries : \E w \in DOMAIN s.MA : \E t \in Days :
          t < w /\ NotNa(s.close[t]) /\ IsNaN(s.MA[w][t])

\* C8: when the volume sum over a trailing window is zero, VWMA{w} is NaN
\* (no error, no infinite value).
C8_ZeroVolumeNaN ==
    IsSet(df_eod_mas) =>
        \A s \in AllSeries : \A w \in DOMAIN s.VWMA : \A t \in Days :
            (/\ t >= w
             /\ \A k \in Window(t, w) : NotNa(s.close[k]) /\ NotNa(s.volume[k])
             /\ IntSum(Num(s.volume), Window(t, w)) = 0)
            => s.VWMA[w][t] = NaN

\* a ticker with prices but no volume over a whole window, traded before
C8_Witness ==
    /\ IsSet(df_eod_mas)
    /\ \E s \in AllSeries : \E w \in DOMAIN s.VWMA : \E t \in Days :
          /\ t > w
          /\ IsFin(s.MA[w][t])
          /\ IntSum(Num(s.volume), Window(t, w)) = 0
          /\ s.volume[t - w] # R(0)
          /\ IsNaN(s.VWMA[w][t])

\* C9: if the volume has the same non-zero value on every row of the
\* trailing window of length w ending at t, VWMA{w}[t] equals MA{w}[t].
C9_ConstantVolume ==
    IsSet(df_eod_mas) =>
        \A s \in AllSeries : \A w \in DOMAIN s.VWMA : \A t \in Days :
            (/\ t >= w
             /\ \A k \in Window(t, w) : s.volume[k] = s.volume[t]
             /\ NotNa(s.volume[t]) /\ s.volume[t] # R(0))
            => s.VWMA[w][t] = s.MA[w][t]

\* a window of changing prices traded at a constant volume other than 1,
\* after a row of another volume
C9_Witness ==
    /\ IsSet(df_eod_mas)
    /\ \E s \in AllSeries : \E w \in DOMAIN s.VWMA : \E t \in Days :
          /\ t > w
          /\ \A k \in Window(t, w) : s.volume[k] = R(2)
          /\ s.volume[t - w] = R(1)
          /\ s.close[t] # s.close[t - 1]
          /\ IsFin(s.MA[w][t])
          /\ s.VWMA[w][t] = s.MA[w][t]

\* the chains of trend_combinations with a label that is no column
MissingChains ==
    {i \in 1..Len(trend_combinations) :
        \E j \in 1..Len(trend_combinations[i].cols) :
            trend_combinations[i].cols[j] \notin EodColumns(df_eod_mas)}

\* C10: a trend-combination chain with a window that has no column in the
\* MA result fails with an error naming the missing window, and never
\* returns a series for that chain.
C10_MissingWindowNamed ==
    (IsSet(trends) /\ MissingChains # {}) =>
        /\ Raised(trends)
        /\ \E i \in MissingChains :
              \E j \in 1..Len(trend_combinations[i].cols) :
                  /\ trend_combinations[i].cols[j] \notin EodColumns(df_eod_mas)
                  /\ trend_combinations[i].cols[j] \in trends.names

\* C12: on a date on which no ticker has a price (active count zero) every
\* unsmoothed breadth percentage is NaN, for every window and both kinds.
C12_ZeroActiveNaN ==
    (IsSet(idx_agg) /\ args.smooth_window <= 1) =>
        \A kind \in Kinds : \A w \in DOMAIN idx_agg[kind] : \A t \in Days :
            ActiveCount(t) = 0 =>
                /\ IsNaN(idx_agg[kind][w].pct_above[t])
                /\ IsNaN(idx_agg[kind][w].pct_below[t])
                /\ IsNaN(idx_agg[kind][w].pct_neutral[t])

\* the tickers whose price and VWMAs form the strict chain of the windows
\* ws at date t: price > VWMA_ws[1] > VWMA_ws[2] > ... > VWMA_ws[k]
ChainTickers(ws, t) ==
    {k \in Tickers :
        /\ FGt(df_eod_mas.close[k][t], df_eod_mas.VWMA[ws[1]][k][t])
        /\ \A j \in 1..(Len(ws) - 1) :
              FGt(df_eod_mas.VWMA[ws[j]][k][t], df_eod_mas.VWMA[ws[j + 1]][k][t])}

\* C13: every ladder over a chain of N windows has one series per prefix
\* length 1..N, and the series of length i at date t is the share (in
\* percent of the tickers) of exactly the tickers whose price and VWMAs
\* form the strict chain price > VWMA_w1 > ... > VWMA_wi at t.
C13_LadderPrefixCounts ==
    (IsSet(ladder) /\ ~Raised(ladder)) =>
        \A name \in LadderNames :
            /\ Len(ladder[name]) = Len(LadderPeriods(name))
            /\ \A i \in 1..Len(LadderPeriods(name)) : \A t \in Days :
                  ladder[name][i][t]
                      = PctOf(Cardinality(ChainTickers(SubSeq(LadderPeriods(name), 1, i), t)),
                              Cardinality(Tickers))

\* a date on which a ticker is above its first VWMA, its first two VWMAs are
\* equal (so the ticker is on rung 1 only), and rung 1 is not empty
C13_Witness ==
    /\ IsSet(ladder) /\ ~Raised(ladder)
    /\ \E t \in Days : \E k \in Tickers :
          LET ws == LadderPeriods("main")
          IN  /\ Len(ws) >= 2
              /\ IsFin(df_eod_mas.VWMA[ws[1]][k][t])
              /\ df_eod_mas.VWMA[ws[1]][k][t] = df_eod_mas.VWMA[ws[2]][k][t]
              /\ k \in ChainTickers(SubSeq(ws, 1, 1), t)
              /\ FGt(ladder.main[1][t], ladder.main[2][t])

MiniLadderNames == {"mini40", "mini80"}

\* the values the VWMAs outside a group are replaced by
OutsideValues == {NaN, R(0), PInf}

\* the table eod_mas with every VWMA of a window outside periods replaced by
\* the constant v
OutsideReplaced(eod_mas, periods, v) ==
    [eod_mas EXCEPT !.VWMA =
        [w \in DOMAIN eod_mas.VWMA |->
            IF w \in SeqToSet(periods) THEN eod_mas.VWMA[w]
            ELSE [k \in DOMAIN eod_mas.VWMA[w] |->
                     [t \in 1..Len(eod_mas.VWMA[w][k]) |-> v]]]]

\* C14: a mini ladder is the ladder of the price and the VWMAs of its own
\* group: replacing the VWMAs of every window outside the group by any
\* other values leaves every series of the mini ladder as it was.
C14_MiniLadderIndependent ==
    (IsSet(ladder) /\ ~Raised(ladder)) =>
        \A name \in MiniLadderNames : \A v \in OutsideValues :
            BuildVwmaTrueLadders(OutsideReplaced(df_eod_mas, LadderPeriods(name), v),
                                 MasList(ma_groups), ma_groups)[name]
                = ladder[name]

\* a ticker that is not on the first rung of the main ladder (a window
\* below the group) and is counted on the last rung of the medium mini ladder
C14_Witness ==
    /\ IsSet(ladder) /\ ~Raised(ladder)
    /\ MasList(ma_groups)[1] \notin SeqToSet(ma_groups["medium"])
    /\ \E t \in Days : \E k \in Tickers :
          /\ IsFin(df_eod_mas.VWMA[MasList(ma_groups)[1]][k][t])
          /\ k \notin ChainTickers(SubSeq(MasList(ma_groups), 1, 1), t)
          /\ k \in ChainTickers(ma_groups["medium"], t)
          /\ FGt(ladder.mini40[Len(ma_groups["medium"])][t], R(0))

\* the tickers whose quotient (close - ma) / denominator at date t, for the
\* window w of the table kind, is above the band (side 1) or below it (-1)
BandTickers(kind, w, t, side, guard) ==
    {k \in Tickers :
        LET close == df_eod_mas.close[k][t]
            ma == df_eod_mas[kind][w][k][t]
            q == FDiv(FSub(close, ma), FAdd(close, guard))
        IN  /\ NotNa(close) /\ NotNa(ma)
            /\ IF side = 1 THEN FGt(q, args.neutral_band_pct)
               ELSE FLt(q, FNeg(args.neutral_band_pct))}

\* the counts of the breadth table are those of the classification with
\* the quotient (close - ma) / (close + guard); every ticker is in exactly
\* one class
BandCounts(guard) ==
    \A kind \in Kinds : \A w \in DOMAIN idx_agg[kind] : \A t \in Days :
        /\ idx_agg[kind][w].num_above[t] = Cardinality(BandTickers(kind, w, t, 1, guard))
        /\ idx_agg[kind][w].num_below[t] = Cardinality(BandTickers(kind, w, t, -1, guard))
        /\ idx_agg[kind][w].num_above[t] + idx_agg[kind][w].num_below[t]
              + idx_agg[kind][w].num_neutral[t] = Cardinality(Tickers)

\* C15 as stated: a ticker with a price and an MA (or VWMA) is counted above
\* iff (price - MA) / price > band, below iff (price - MA) / price < -band,
\* neutral otherwise.
C15_NeutralBand ==
    IsSet(idx_agg) => BandCounts(R(0))

\* C15 amended: a ticker with a price and an MA (or VWMA) is counted above
\* iff (price - MA) / (price + eps) > band, below iff that quotient is
\* < -band, neutral otherwise, eps being the guard 1e-9 of the division.
C15_NeutralBandEps ==
    IsSet(idx_agg) => BandCounts(Eps)

\* a date with one ticker above, and one below or neutral although it has a
\* price and an MA
C15_Witness ==
    /\ IsSet(idx_agg)
    /\ \E w \in DOMAIN idx_agg.MA : \E t \in Days :
          /\ idx_agg.MA[w].num_above[t] >= 1
          /\ idx_agg.VWMA[w].num_above[t] >= 1
          /\ \E k \in Tickers :
                /\ IsFin(df_eod_mas.MA[w][k][t]) /\ IsFin(df_eod_mas.close[k][t])
                /\ k \notin BandTickers("MA", w, t, 1, Eps)

\* the rows of the trailing window of s rows that ends at row t
TrailingRows(t, s) == {j \in Days : j <= t /\ j > t - s}

\* mean over the trailing rows of the percentages count / num_tickers * 100
TrailingMeanPct(count, t, s) ==
    PctOf(IntSum(count, TrailingRows(t, s)),
          args.num_tickers * Cardinality(TrailingRows(t, s)))

\* C16: with a smoothing window s > 1 every breadth percentage at row t is
\* the mean of the unsmoothed percentages of the last min(t, s) rows (rows
\* counted from 1), and it is a number on every row, the first included.
C16_SmoothingTrailingMean ==
    (IsSet(idx_agg) /\ args.smooth_window > 1) =>
        \A kind \in Kinds : \A w \in DOMAIN idx_agg[kind] : \A t \in Days :
            LET r == idx_agg[kind][w]
                s == args.smooth_window
            IN  /\ Cardinality(TrailingRows(t, s)) = IF t < s THEN t ELSE s
                /\ r.pct_above[t] = TrailingMeanPct(r.num_above, t, s)
                /\ r.pct_below[t] = TrailingMeanPct(r.num_below, t, s)
                /\ r.pct_neutral[t] = TrailingMeanPct(r.num_neutral, t, s)
                /\ IsFin(r.pct_above[t]) /\ IsFin(r.pct_below[t])
                /\ IsFin(r.pct_neutral[t])

\* a smoothed table whose counts change inside a full window and on the
\* first rows, where the window is not yet full
C16_Witness ==
    /\ IsSet(idx_agg) /\ args.smooth_window > 1
    /\ args.smooth_window < MaxDays
    /\ \E w \in DOMAIN idx_agg.MA :
          LET r == idx_agg.MA[w]
              s == args.smooth_window
          IN  /\ r.num_above[1] # r.num_above[2]
              /\ \E t \in Days :
                    /\ t > s
                    /\ r.num_above[t - s] # r.num_above[t]
                    /\ r.pct_above[t] # PctOf(r.num_above[t], args.num_tickers)

RECURSIVE FSumOver(_, _, _)
\* the plain sum of table[w][t] over the windows w of the set S
FSumOver(table, S, t) ==
    IF S = {} THEN R(0)
    ELSE LET w == CHOOSE w \in S : TRUE
         IN  FAdd(table[w][t], FSumOver(table, S \ {w}, t))

\* C18: for every group and date, the group's Abs sum is the sum of Abs_w
\* over exactly the windows of the group's periods, and the group's Dir sum
\* the sum of Dir_w over the same windows (the VWMA quantities, the only
\* ones the table has group sums of).
C18_GroupSums ==
    IsSet(idx_compress) =>
        \A g \in DOMAIN ma_groups : \A t \in Days :
            /\ idx_compress.Abs_VWMA_sum[g][t]
                  = FSumOver(idx_compress.Abs_VWMA, SeqToSet(ma_groups[g]), t)
            /\ idx_compress.Dir_VWMA_sum[g][t]
                  = FSumOver(idx_compress.Dir_VWMA, SeqToSet(ma_groups[g]), t)

\* a date on which a group of two windows has two non-zero terms and a
\* window of another group is non-zero as well
C18_Witness ==
    /\ IsSet(idx_compress)
    /\ \E g \in DOMAIN ma_groups : \E h \in DOMAIN ma_groups \ {g} : \E t \in Days :
          /\ Len(ma_groups[g]) >= 2
          /\ \A i \in 1..Len(ma_groups[g]) :
                /\ IsFin(idx_compress.Abs_VWMA[ma_groups[g][i]][t])
                /\ FGt(idx_compress.Abs_VWMA[ma_groups[g][i]][t], R(0))
          /\ FGt(idx_compress.Abs_VWMA[ma_groups[h][1]][t], R(0))
          /\ idx_compress.Dir_VWMA_sum[g][t] # idx_compress.Abs_VWMA_sum[g][t]

\* the calls of compute_indicators that receive the MA/VWMA result tables
AggregatorCalls ==
    {"calc_conver_diver_oscillator", "calculate_tickers_over_under_mas",
     "calculate_compressao_dispersao", "build_vwma_true_ladders"}

\* C19: a call of the oscillator, the breadth, the compression or the ladder
\* computation leaves the index-level and the ticker-level MA/VWMA result
\* tables with the columns and values they had before the call.
C19_ResultTablesUnwritten ==
    [][(pc \in AggregatorCalls) =>
          (df_idx_mas' = df_idx_mas /\ df_eod_mas' = df_eod_mas)]_vars

\* the oscillator, the breadth, the compression and the ladder have returned
\* their tables, the copies carry added columns with values, and the result
\* tables hold what the engine returned
C19_Witness ==
    /\ IsSet(idx_with_osc) /\ ~Raised(idx_with_osc)
    /\ IsSet(idx_agg) /\ IsSet(idx_compress)
    /\ IsSet(ladder) /\ ~Raised(ladder)
    /\ idx_with_osc.base = df_idx_mas /\ idx_compress.base = df_idx_mas
    /\ \E t \in Days : idx_with_osc.range_pct.MA_no200[t] # R(0)
                          /\ NotNa(idx_with_osc.range_pct.MA_no200[t])
    /\ \E w \in DOMAIN idx_compress.Abs_MA : \E t \in Days :
          FGt(idx_compress.Abs_MA[w][t], R(0))
    /\ DOMAIN df_idx_mas = {"close", "volume", "MA", "VWMA"}
    /\ DOMAIN df_eod_mas = {"close", "volume", "MA", "VWMA"}

\* the panel lacks the 'Adj Close' column of the index (ticker "") or of
\* the ticker k
LacksAdjClose(df, k) ==
    IF k = "" THEN MissingAdjClose(df) ELSE k \notin TickersOf(df, "close")

\* C11: when 'Adj Close' is absent from an input panel, no stage puts
\* another column in its place (the column is still absent when
\* update_databases returns), and the pipeline fails with an error that
\* names 'Adj Close'.
C11_MissingFieldFails ==
    /\ [][(pc = "update_databases") =>
            /\ (LacksAdjClose(index_df, "") => LacksAdjClose(index_df', ""))
            /\ \A k \in Tickers :
                  LacksAdjClose(components_df, k) => LacksAdjClose(components_df', k)]_vars
    /\ []((IsSet(df_idx) /\ IsSet(df_idx_mas)
              /\ (MissingAdjClose(df_idx) \/ MissingAdjClose(df_eod)))
            => (Raised(df_idx_mas) /\ "Adj Close" \in df_idx_mas.names))

\* C17: the calendar alignment leaves the two loaded panels it is called
\* with as they were (index, columns and values), and the MA/VWMA engine
\* and every aggregator leave the loaded and the aligned panels as they
\* were.
C17_InputPanelsUnmodified ==
    [][/\ (pc = "align_and_prepare_for_plot") =>
              (index_df' = index_df /\ components_df' = components_df)
       /\ (pc \notin {"update_databases", "align_and_prepare_for_plot"}) =>
              (/\ index_df' = index_df /\ components_df' = components_df
               /\ df_idx' = df_idx /\ df_eod' = df_eod)]_vars

\* the alignment has dropped a row of each panel from the tables it
\* returned, the engine and the aggregators have run, and the loaded panels
\* still have the rows
C17_Witness ==
    /\ IsSet(df_idx) /\ ~Raised(df_idx)
    /\ IsSet(df_eod_mas) /\ IsSet(idx_agg) /\ IsSet(idx_compress) /\ IsSet(ladder)
    /\ Len(index_df.index) > Len(df_idx.volume)
    /\ Len(components_df.index) > Len(df_idx.volume)
    /\ index_df.index = DayIndex(0, MaxDays)
    /\ components_df.index = DayIndex(1, MaxDays + 1)

\* C20: given one MA/VWMA result, whatever the order in which the
\* oscillator, the breadth, the compression and the ladder are called, the
\* table each of them returns is the table it returns when it is called
\* first on that result.
C20_OrderIndependent ==
    LET im == IdxMas(df_idx, MasList(ma_groups))
        em == EodMas(df_eod, MasList(ma_groups))
    IN  /\ IsSet(idx_with_osc) =>
              idx_with_osc = CalcConverDiverOscillator(im, ma_groups,
                                 args.oscillator_type, args.zscore_mode,
                                 args.oscillator_lookback)
        /\ IsSet(idx_agg) =>
              idx_agg = CalculateTickersOverUnderMas(em, args.num_tickers,
                            args.neutral_band_pct, args.smooth_window)
        /\ IsSet(idx_compress) =>
              idx_compress = CalculateCompressaoDispersao(im, em, ma_groups)
        /\ IsSet(ladder) =>
              ladder = BuildVwmaTrueLadders(em, MasList(ma_groups), ma_groups)

\* the ladder and the compression have returned their tables before the
\* oscillator and the breadth were called (the reverse of the order of
\* compute_indicators)
C20_Witness ==
    /\ pc = "aggregators"
    /\ IsSet(ladder) /\ ~Raised(ladder) /\ IsSet(idx_compress)
    /\ idx_with_osc = Unset /\ idx_agg = Unset
    /\ \E t \in Days : FGt(ladder.main[1][t], R(0))
    /\ \E w \in DOMAIN idx_compress.Abs_VWMA : \E t \in Days :
          FGt(idx_compress.Abs_VWMA[w][t], R(0))

(***************************************************************************)
(* Properties of rolling_robust_zscore                                     *)
(***************************************************************************)
Finite(x) == ~IsNaN(x) /\ ~IsInf(x)

\* the rolling median of the series of a zscore call and the rolling median
\* of the absolute deviations from it, for the parameters of the mode
CallMedian == RollingMedianP(call.series, call.score_params[call.mode].window, call.score_params[call.mode].min_periods)
CallMad == RollingMedianP([t \in 1..ZLen |-> FAbs(FSub(call.series[t], CallMedian[t]))], call.score_params[call.mode].window, call.score_params[call.mode].min_periods)

ZscoreReturned ==
    /\ IsSet(call) /\ call.fn = "rolling_robust_zscore"
    /\ IsSet(returned) /\ ~Raised(returned)

\* C21: in zscore mode the oscillator is never NaN or infinite; on every date
\* where the rolling MAD is zero (a flat series included) or the rolling
\* median is undefined, the output is exactly 0.
C21_ZscoreFinite ==
    ZscoreReturned =>
        \A t \in 1..ZLen :
            /\ Finite(returned.value[t])
            /\ (CallMad[t] = R(0) \/ IsNaN(CallMedian[t])) => returned.value[t] = R(0)

\* a series gets a non-zero score on one date, has a zero MAD on another
\* and no median on a third
C21_Witness ==
    /\ ZscoreReturned
    /\ \E t \in 1..ZLen : returned.value[t] # R(0)
    /\ \E t \in 1..ZLen : CallMad[t] = R(0) /\ returned.value[t] = R(0)
    /\ \E t \in 1..ZLen : IsNaN(CallMedian[t]) /\ returned.value[t] = R(0)

\* the score before clipping: the deviation from the rolling median over the
\* scaled MAD, 0 where that quotient is undefined or infinite
UnclippedScore(t) ==
    LET q == FDiv(FSub(call.series[t], CallMedian[t]), FMul(CallMad[t], MadScale))
    IN  IF Finite(q) THEN q ELSE R(0)

\* C22: in the modes with a clip bound c (swing, longterm) every output z
\* satisfies -c <= z <= c, and the swing bound is below the longterm bound;
\* in mode anomalies nothing is clipped; a mode that is not configured is
\* rejected with an error.
C22_ZscoreClip ==
    (IsSet(call) /\ call.fn = "rolling_robust_zscore" /\ IsSet(returned)) =>
        /\ call.mode \in {"swing", "longterm"} =>
              LET c == call.score_params[call.mode].clip
              IN  /\ Finite(c)
                  /\ \A t \in 1..ZLen :
                        FLe(FNeg(c), returned.value[t]) /\ FLe(returned.value[t], c)
        /\ FLt(call.score_params.swing.clip, call.score_params.longterm.clip)
        /\ call.mode = "anomalies" =>
              \A t \in 1..ZLen : returned.value[t] = UnclippedScore(t)
        /\ call.mode \notin {"swing", "longterm", "anomalies"} =>
              Raised(returned) /\ returned.error = "ValueError"

\* a score beyond the bound of the mode has been clipped to the bound
C22_Witness ==
    /\ ZscoreReturned
    /\ call.mode \in {"swing", "longterm"}
    /\ \E t \in 1..ZLen :
          /\ FGt(UnclippedScore(t), call.score_params[call.mode].clip)
          /\ returned.value[t] = call.score_params[call.mode].clip

(***************************************************************************)
(* Properties of the ladder on rising prices                               *)
(***************************************************************************)
\* every ticker's price is above its price of the day before, on every day
StrictlyIncreasing ==
    \A k \in Tickers : \A t \in 2..MaxDays : FGt(df_eod.close[k][t], df_eod.close[k][t - 1])

\* every ticker trades on every day
VolumePositive ==
    \A k \in Tickers : \A t \in Days : FGt(df_eod.volume[k][t], R(0))

\* the ladders with a chain of two windows, price > V{w1} > V{w2}: 100 from
\* the first date on which both averages have full history (row w2), 0 or
\* missing before
TwoWindowChains ==
    \A name \in LadderNames :
        Len(ladder[name]) >= 2 =>
            \A t \in Days :
                IF t >= LadderPeriods(name)[2] THEN ladder[name][2][t] = R(100)
                ELSE ladder[name][2][t] = R(0) \/ IsNaN(ladder[name][2][t])

LadderBuilt == IsSet(ladder) /\ ~Raised(ladder)

\* C23: with every ticker's price strictly increasing on every day, the
\* ladder percentage of the chain price > MA{w1} > MA{w2} is 100 on every date
\* from the first date on which both averages have full history, and 0 (or
\* NaN) on every earlier date.
C23_RisingLadder ==
    (LadderBuilt /\ StrictlyIncreasing) => TwoWindowChains

\* C23, amended: the same for panels on which every ticker has a positive
\* volume on every day (the averages of the ladder are volume weighted).
C23_RisingLadderTraded ==
    (LadderBuilt /\ StrictlyIncreasing /\ VolumePositive) => TwoWindowChains

\* rising prices with volumes that differ from day to day, the chain of the
\* first two windows at 0 before row w2 and at 100 from it
C23_Witness ==
    /\ LadderBuilt /\ StrictlyIncreasing /\ VolumePositive
    /\ df_eod.volume["A"][1] # df_eod.volume["A"][MaxDays]
    /\ ladder["main"][2][LadderPeriods("main")[2] - 1] = R(0)
    /\ ladder["main"][2][LadderPeriods("main")[2]] = R(100)
    /\ ladder["mini40"][2][MaxDays] = R(100)

(***************************************************************************)
(* Properties of the MA / VWMA engine across tickers                       *)
(***************************************************************************)
\* the values the columns of the other tickers are replaced by
OtherValues == {NaN, R(0), R(3)}

\* the component panel with the price and the volume of every ticker but k
\* replaced by p and v on every date
OthersReplaced(eod, k, p, v) ==
    [close  |-> [j \in DOMAIN eod.close |-> IF j = k THEN eod.close[k] ELSE ConstSeries(p)],
     volume |-> [j \in DOMAIN eod.close |-> IF j = k THEN eod.volume[k] ELSE ConstSeries(v)]]

\* the index panel with price and volume replaced
IndexReplaced(p, v) == [close |-> ConstSeries(p), volume |-> ConstSeries(v)]

EngineRan == IsSet(df_eod_mas) /\ IsSet(df_idx_mas) /\ ~Raised(df_idx_mas)

\* the pair of tables calculate_idx_and_comp_ma_vwma returns
EngineTables(idx, eod, mas) == [idx |-> IdxMas(idx, mas), eod |-> EodMas(eod, mas)]

\* C24: the MA{w} and VWMA{w} series of a ticker depend only on that
\* ticker's own price and volume columns: with the price and volume of every
\* other ticker and of the index replaced, the engine returns the same
\* series for the ticker.
C24_NoCrossTickerLeak ==
    EngineRan =>
        \A p \in OtherValues, v \in OtherValues : \A k \in Tickers :
            LET other == EngineTables(IndexReplaced(p, v),
                                      OthersReplaced(df_eod, k, p, v),
                                      MasList(ma_groups)).eod
            IN  \A w \in DOMAIN df_eod_mas.MA :
                    /\ other.MA[w][k] = df_eod_mas.MA[w][k]
                    /\ other.VWMA[w][k] = df_eod_mas.VWMA[w][k]

\* the engine has run on a panel whose tickers differ in price and volume
\* and have different averages
C24_Witness ==
    /\ EngineRan
    /\ df_eod.close["A"] # df_eod.close["B"]
    /\ df_eod.volume["A"] # df_eod.volume["B"]
    /\ \E w \in DOMAIN df_eod_mas.VWMA : \E t \in Days :
          /\ NotNa(df_eod_mas.VWMA[w]["A"][t]) /\ NotNa(df_eod_mas.VWMA[w]["B"][t])
          /\ df_eod_mas.VWMA[w]["A"][t] # df_eod_mas.VWMA[w]["B"][t]
          /\ df_eod_mas.VWMA[w]["A"][t] # df_eod_mas.MA[w]["A"][t]

(***************************************************************************)
(* Properties of add_breakout_columns                                      *)
(***************************************************************************)
BreakoutReturned ==
    IsSet(call) /\ call.fn = "add_breakout_columns" /\ IsSet(returned)

\* the return of ticker k over the period of condition c, at row t
CondPctChg(c, k, t) == PctChange(call.close[k], c.period_days)[t]

\* C25: for each ticker and each condition an up event is flagged on day t
\* iff pctchg[t] >= pct and pctchg[t-1] < pct, a down event iff
\* pctchg[t] <= -pct and pctchg[t-1] > -pct; so no ticker has an up event
\* (or a down event) of the same condition on two consecutive days.
C25_BreakoutCrossing ==
    BreakoutReturned =>
        \A c \in SeqToSet(call.conditions) : \A k \in Tickers :
            LET up == returned.value.df_eod_out[c.up_col][k]
                down == returned.value.df_eod_out[c.down_col][k]
            IN  /\ \A t \in 1..BLen :
                      /\ up[t] = 1 <=>
                            /\ t > 1
                            /\ FLe(c.pct, CondPctChg(c, k, t))
                            /\ FLt(CondPctChg(c, k, t - 1), c.pct)
                      /\ down[t] = 1 <=>
                            /\ t > 1
                            /\ FLe(CondPctChg(c, k, t), FNeg(c.pct))
                            /\ FGt(CondPctChg(c, k, t - 1), FNeg(c.pct))
                      /\ up[t] \in {0, 1} /\ down[t] \in {0, 1}
                /\ \A t \in 1..(BLen - 1) :
                      ~(up[t] = 1 /\ up[t + 1] = 1) /\ ~(down[t] = 1 /\ down[t + 1] = 1)

\* a return that stays at or beyond the threshold for two days is flagged on
\* the first of them only, for an up and for a down event
C25_Witness ==
    /\ BreakoutReturned
    /\ \E c \in SeqToSet(call.conditions) : \E t \in 1..(BLen - 1) :
          /\ returned.value.df_eod_out[c.up_col]["A"][t] = 1
          /\ FLe(c.pct, CondPctChg(c, "A", t + 1))
          /\ returned.value.df_eod_out[c.up_col]["A"][t + 1] = 0
    /\ \E c \in SeqToSet(call.conditions) : \E t \in 1..(BLen - 1) :
          /\ returned.value.df_eod_out[c.down_col]["B"][t] = 1

(***************************************************************************)
(* Properties of compute_zbt_thrust                                        *)
(***************************************************************************)
ZbtReturned == IsSet(call) /\ call.fn = "compute_zbt_thrust" /\ IsSet(returned)

\* k is a trigger day: zbt[k] >= upper and some zbt value <= lower among the
\* up-to-lookback days immediately before k
TriggerDay(k) ==
    /\ FLe(call.upper, call.zbt[k])
    /\ \E j \in 1..(k - 1) : k - j <= call.lookback /\ FLe(call.zbt[j], call.lower)

\* C26: day i is in the thrust regime iff there is a trigger day k <= i with
\* zbt[j] >= lower for every day j in k..i; hence the regime is never True on
\* a day with zbt below lower, and once True it stays True exactly until the
\* first day zbt falls below lower.
C26_ThrustRegime ==
    ZbtReturned =>
        /\ \A i \in 1..TLen :
              returned.value[i] <=>
                  \E k \in 1..i :
                      TriggerDay(k) /\ \A j \in k..i : FLe(call.lower, call.zbt[j])
        /\ \A i \in 1..TLen : FLt(call.zbt[i], call.lower) => ~returned.value[i]
        /\ \A i \in 1..(TLen - 1) :
              returned.value[i] =>
                  /\ FLe(call.lower, call.zbt[i + 1]) => returned.value[i + 1]
                  /\ FLt(call.zbt[i + 1], call.lower) => ~returned.value[i + 1]

\* a regime that outlasts its trigger day by two days on which zbt is below
\* upper, and ends on the day zbt falls below lower
C26_Witness ==
    /\ ZbtReturned
    /\ \E k \in 1..(TLen - 3) :
          /\ TriggerDay(k)
          /\ \A j \in (k + 1)..(k + 2) :
                returned.value[j] /\ FLt(call.zbt[j], call.upper)
          /\ FLt(call.zbt[k + 3], call.lower) /\ ~returned.value[k + 3]

(***************************************************************************)
(* Properties of update_indexes                                            *)
(***************************************************************************)
\* the call merged downloaded rows into the table of the file
Merged == IsSet(call) /\ call.fn = "update_indexes" /\ IsSet(returned) /\ returned.value.merged

OldTable == DropLastZeroVolume(call.file)
RowOf(rows, d) == rows[CHOOSE i \in 1..Len(rows) : rows[i].date = d]

ChunksReturned == call.fn = "_generate_chunks" /\ returned # Unset

\* the chunks yielded start at start, end at end, follow one another by one
\* day and cover at most max_years calendar years each
ChunksCoverRange(chunks, start, end, max_years) ==
    /\ Len(chunks) >= 1
    /\ chunks[1][1] = start
    /\ chunks[Len(chunks)][2] = end
    /\ \A i \in 1..Len(chunks) :
          /\ chunks[i][1] <= chunks[i][2]
          /\ YearOf(chunks[i][2]) - YearOf(chunks[i][1]) + 1 <= max_years
    /\ \A i \in 1..(Len(chunks) - 1) : chunks[i + 1][1] = chunks[i][2] + 1

ChunksAsClaimed ==
    (ChunksReturned /\ call.start <= call.end /\ call.max_years >= 1)
        => ChunksCoverRange(returned.value, call.start, call.end, call.max_years)

\* C28: for start <= end and max_years >= 1 the date-chunk generator
\* terminates, and its chunks are in ascending order: the first starts at
\* start, the last ends at end, each starts on the day after the previous one
\* ends, and none covers more than max_years calendar years.
C28_ChunksTerminateAndCover == []ChunksAsClaimed /\ <>ChunksReturned

C28_Witness ==
    /\ ChunksReturned
    /\ Len(returned.value) >= 2
    /\ call.start # Jan1(YearOf(call.start))
    /\ call.end # Dec31(YearOf(call.end))
    /\ call.max_years >= 2

FetchReturned == call.fn = "fetch_series" /\ returned # Unset

ObsDates(rows) == {rows[i].data : i \in 1..Len(rows)}

\* the chunks asked for so far, in the order of the requests
Requested == [k \in 1..Len(locals.responses) |-> locals.responses[k].chunk]

\* the frames of the requests that were kept, in the order of the requests
KeptFrames ==
    LET kept == SelectSeq(locals.responses, LAMBDA r : r.kept)
    IN  [k \in 1..Len(kept) |-> kept[k].rows]

SeriesMerged == call.fn = "build_bcb_files" /\ returned # Unset /\ call.has_old

\* C30: every date of the existing series is in the merged series with its
\* value, also a date whose value is the value of another date, and the
\* existing series is kept unchanged when nothing new was fetched.
C30_MergeKeepsExisting ==
    SeriesMerged =>
        /\ \A i \in 1..Len(call.s_old) :
              \E j \in 1..Len(returned.value.series) :
                 returned.value.series[j] = call.s_old[i]
        /\ call.s_new = <<>> => returned.value.series = call.s_old

====
